---------------------------- MODULE Spec2Model ----------------------------
(***************************************************************************)
(* FlowBoard: a client-side project dashboard talking to a hosted          *)
(* backend.  The module models                                             *)
(*   - the Kanban board's filter state (components/KanbanBoard.tsx),       *)
(*   - the service layer (services/projectService),                        *)
(*   - the two-step project deletion against the backend tables,           *)
(*   - the ProjectDetail page with its realtime task subscription,         *)
(*   - the team invitation pages.                                          *)
(* Each part has its own specification over the shared variables.          *)
(***************************************************************************)
EXTENDS Integers, Sequences, FiniteSets, TLC

\* ------------------------------------------------------------------ bounds
\* longest task list handed to the Kanban board
MaxLen == 2

\* number of project rows the backend starts with
MaxProjects == 2

\* number of task rows ever inserted
MaxTasks == 2

\* notifications sent and not yet delivered
MaxNotifs == 1

\* loads of the ProjectDetail page in flight at once
MaxLoads == 2

\* Invitation rows and membership rows the backend has room for
MaxInvitations == 2

MaxMembers == 1

\* ----------------------------------------------------------- shared values
NULL == "null"

\* Task['status'], the four Kanban columns
Statuses == {"todo", "in-progress", "review", "completed"}

\* Task['priority']
Priorities == {"low", "medium", "high"}

\* const columns: the board's columns in display order
columns == <<[title |-> "To Do", status |-> "todo"],
             [title |-> "In Progress", status |-> "in-progress"],
             [title |-> "In Review", status |-> "review"],
             [title |-> "Completed", status |-> "completed"]>>

\* const allPriorities
allPriorities == <<"low", "medium", "high">>

\* The statuses the tasks of the inputs are given: a first and a later column
InputStatuses == {"todo", "review"}

\* ------------------------------------------------------------------ state
VARIABLES
    kbTasks,      \* KanbanBoard props.tasks
    searchTerm,   \* KanbanBoard searchTerm
    filters,      \* KanbanBoard filters {priority, tags}
    toggleLog,    \* a priority checked and then unchecked again (history)
    svc,          \* the service-layer call in progress and its effects
    projects,     \* backend table projects: the ids of its rows
    tasks,        \* backend table tasks: its rows
    nextTaskId,   \* the id the backend gives the next inserted task
    channel,      \* the realtime subscription's filter project id, 0 if none
    notifs,       \* row-change notifications sent and not yet delivered
    dp,           \* the deleteProject call of ProjectHeader
    dpOk,         \* project ids for which deleteProject returned true
    pdRoute,      \* the projectId of route /projects/:projectId, 0 elsewhere
    pdProject,    \* ProjectDetail project (its id), or 0 for null
    pdTasks,      \* ProjectDetail tasks
    pdIsLoading,  \* ProjectDetail isLoading
    loads,        \* loadProjectAndTasks runs in flight, oldest first
    drag,         \* the dataTransfer of the card being dragged
    upd,          \* the updateTaskStatus call of the last drop
    ft,           \* a fetchTasks call and the list it returned
    team_invitations,  \* backend table team_invitations: a set of rows
    team_members,      \* backend table team_members: rows in insert order
    nextInvitationId,  \* id and token the backend gives the next invitation
    ip,           \* TeamInvitationPage: its state and its handler's position
    tp,           \* TeamPage: the invitation call in progress
    oc,           \* another client's updateTaskStatus call
    auth,         \* the auth context: loading and the signed-in user
    route,        \* the route the router shows
    ran,          \* the route and user the mounted page's effects last ran for
    channels,     \* the channels open at the realtime client
    sp,           \* the Reports or Dashboard page and its loads in flight
    ol,           \* a second getInvitationLink call in flight
    st            \* the statistics a page computed from the tasks it fetched

kanbanVars == <<kbTasks, searchTerm, filters, toggleLog>>

svcVars == <<svc>>

backendVars == <<projects, tasks, nextTaskId, channel, notifs>>

deleteVars == <<dp, dpOk>>

pageVars == <<pdRoute, pdProject, pdTasks, pdIsLoading, loads>>

dropVars == <<drag, upd>>

fetchVars == <<ft>>

inviteVars == <<team_invitations, team_members, nextInvitationId, ip, tp>>

raceVars == <<oc>>

sessionVars == <<auth, route, ran, channels>>

statsVars == <<sp>>

linkVars == <<ol>>

chartVars == <<st>>

vars == <<kbTasks, searchTerm, filters, toggleLog, svc, projects, tasks,
          nextTaskId, channel, notifs, dp, dpOk, pdRoute, pdProject,
          pdTasks, pdIsLoading, loads, drag, upd, ft, team_invitations,
          team_members, nextInvitationId, ip, tp, oc, auth, route, ran,
          channels, sp, ol, st>>

\* The variables outside the Kanban board
notKanban == <<svcVars, backendVars, deleteVars, pageVars, dropVars,
               fetchVars, inviteVars,
    raceVars, sessionVars, statsVars, linkVars, chartVars>>

\* The variables outside the service-layer call
notSvc == <<kanbanVars, backendVars, deleteVars, pageVars, dropVars,
            fetchVars, inviteVars,
    raceVars, sessionVars, statsVars, linkVars, chartVars>>

\* The variables outside the backend and the deleteProject call
notDelete == <<kanbanVars, svcVars, pageVars, dropVars, fetchVars,
               inviteVars,
    raceVars, sessionVars, statsVars, linkVars, chartVars>>

\* The variables outside the backend and the ProjectDetail page
notPage == <<kanbanVars, svcVars, deleteVars, fetchVars, inviteVars,
    raceVars, sessionVars, statsVars, linkVars, chartVars>>

\* The variables outside the backend and the fetchTasks call
notFetch == <<kanbanVars, svcVars, deleteVars, pageVars, dropVars,
              inviteVars,
    raceVars, sessionVars, statsVars, linkVars, chartVars>>

\* The variables outside the invitation tables and pages
notInvite == <<kanbanVars, svcVars, backendVars, deleteVars, pageVars,
               dropVars, fetchVars, raceVars, sessionVars, statsVars,
               linkVars, chartVars>>

\* The variables outside the backend, the page and the two clients' calls
notRace == <<kanbanVars, svcVars, deleteVars, fetchVars, inviteVars,
            sessionVars, statsVars, linkVars, chartVars>>

\* The variables outside the session, the router and the realtime client
notSession == <<kanbanVars, svcVars, backendVars, deleteVars, pageVars,
                dropVars, fetchVars, inviteVars, raceVars, statsVars,
                linkVars, chartVars>>

\* The variables outside the backend and the Reports and Dashboard pages
notStats == <<kanbanVars, svcVars, deleteVars, pageVars, dropVars,
              fetchVars, inviteVars, raceVars, sessionVars,
              linkVars, chartVars>>

\* The variables outside the invitation tables and the second link call
notLink == <<kanbanVars, svcVars, backendVars, deleteVars, pageVars,
             dropVars, fetchVars, raceVars, sessionVars, statsVars,
             chartVars>>

\* The variables outside the computed statistics
notChart == <<kanbanVars, svcVars, backendVars, deleteVars, pageVars,
              dropVars, fetchVars, inviteVars, raceVars, sessionVars,
              statsVars, linkVars>>

\* ---------------------------------------------------------------- strings
\* A string is a sequence of one-character strings; a null string field is
\* NullText, which no string equals.
NullText == <<NULL>>

LowerChar(c) == IF c = "A" THEN "a" ELSE IF c = "B" THEN "b" ELSE c

\* String.prototype.toLowerCase
toLowerCase(s) == [i \in 1..Len(s) |-> LowerChar(s[i])]

\* String.prototype.includes
StrIncludes(s, sub) ==
    \E i \in 0..(Len(s) - Len(sub)) :
        \A j \in 1..Len(sub) : s[i + j] = sub[j]

\* Array.prototype.includes
Includes(arr, x) == \E i \in 1..Len(arr) : arr[i] = x

\* Array.prototype.filter keeps the passing elements in their order; it is
\* SelectSeq of the Sequences module.

\* ------------------------------------------------------------ service layer
\* The exported functions of services/projectService
ServiceFns ==
    {"fetchProjects", "createProject", "updateProject", "deleteProject",
     "fetchTasks", "createTask", "updateTask", "updateTaskStatus",
     "deleteTask", "fetchTeams", "createTeam", "addTeamMember",
     "fetchUserProfile", "updateUserProfile", "fetchTags", "createTag",
     "addTagToTask", "removeTagFromTask", "fetchComments", "createComment",
     "addProjectMember", "fetchProjectMembers"}

\* updateTaskStatus is `return updateTask(id, { status })`
Body(fn) == IF fn = "updateTaskStatus" THEN "updateTask" ELSE fn

Req(table, op) == [table |-> table, op |-> op]

\* The awaited backend requests of a function body, in program order
BackendCalls(fn) ==
    CASE fn = "fetchProjects" -> <<Req("projects", "select")>>
      [] fn = "createProject" -> <<Req("projects", "insert")>>
      [] fn = "updateProject" -> <<Req("projects", "update")>>
      [] fn = "deleteProject" ->
            <<Req("tasks", "delete"), Req("projects", "delete")>>
      [] fn = "fetchTasks" -> <<Req("tasks", "select")>>
      [] fn = "createTask" -> <<Req("tasks", "insert")>>
      [] fn = "updateTask" -> <<Req("tasks", "update")>>
      [] fn = "deleteTask" -> <<Req("tasks", "delete")>>
      [] fn = "fetchTeams" -> <<Req("teams", "select")>>
      [] fn = "createTeam" -> <<Req("teams", "insert")>>
      [] fn = "addTeamMember" -> <<Req("team_members", "insert")>>
      [] fn = "fetchUserProfile" -> <<Req("user_profiles", "select")>>
      [] fn = "updateUserProfile" -> <<Req("user_profiles", "update")>>
      [] fn = "fetchTags" -> <<Req("tags", "select")>>
      [] fn = "createTag" -> <<Req("tags", "insert")>>
      [] fn = "addTagToTask" -> <<Req("task_tags", "insert")>>
      [] fn = "removeTagFromTask" -> <<Req("task_tags", "delete")>>
      [] fn = "fetchComments" -> <<Req("comments", "select")>>
      [] fn = "createComment" -> <<Req("comments", "insert")>>
      [] fn = "addProjectMember" -> <<Req("project_members", "insert")>>
      [] fn = "fetchProjectMembers" -> <<Req("project_members", "select")>>

\* The declared result type: Promise<X[]>, Promise<X | null>, Promise<boolean>
ReturnType(fn) ==
    IF fn \in {"fetchProjects", "fetchTasks", "fetchTeams", "fetchTags",
               "fetchComments", "fetchProjectMembers"} THEN "list"
    ELSE IF fn \in {"deleteProject", "deleteTask", "removeTagFromTask",
                    "addProjectMember"} THEN "boolean"
    ELSE "record"

\* The failure value of a result type
Sentinel(type) ==
    CASE type = "list" -> "[]"
      [] type = "boolean" -> "false"
      [] type = "record" -> "null"

\* The return statement of the catch block
CatchReturn(fn) ==
    CASE fn \in {"fetchProjects", "fetchTasks", "fetchTeams", "fetchTags",
                 "fetchComments", "fetchProjectMembers"} -> "[]"
      [] fn \in {"createProject", "updateProject", "createTask", "updateTask",
                 "createTeam", "addTeamMember", "fetchUserProfile",
                 "updateUserProfile", "createTag", "addTagToTask",
                 "createComment"} -> "null"
      [] fn \in {"deleteProject", "deleteTask", "removeTagFromTask",
                 "addProjectMember"} -> "false"

\* The return statement at the end of the try block
TryReturn(fn) ==
    CASE ReturnType(fn) = "list" -> "data[]"
      [] ReturnType(fn) = "record" -> "data"
      [] ReturnType(fn) = "boolean" -> "true"

\* Where the catch block reports: toast.error, or console.error
CatchReport(fn) == IF fn = "fetchUserProfile" THEN "console" ELSE "toast"

\* The text before error.message in the catch block's report
ErrorPrefix(fn) ==
    CASE fn = "fetchProjects" -> "Error fetching projects: "
      [] fn = "createProject" -> "Error creating project: "
      [] fn = "updateProject" -> "Error updating project: "
      [] fn = "deleteProject" -> "Error deleting project: "
      [] fn = "fetchTasks" -> "Error fetching tasks: "
      [] fn = "createTask" -> "Error creating task: "
      [] fn = "updateTask" -> "Error updating task: "
      [] fn = "deleteTask" -> "Error deleting task: "
      [] fn = "fetchTeams" -> "Error fetching teams: "
      [] fn = "createTeam" -> "Error creating team: "
      [] fn = "addTeamMember" -> "Error adding team member: "
      [] fn = "fetchUserProfile" -> "Error fetching user profile: "
      [] fn = "updateUserProfile" -> "Error updating profile: "
      [] fn = "fetchTags" -> "Error fetching tags: "
      [] fn = "createTag" -> "Error creating tag: "
      [] fn = "addTagToTask" -> "Error adding tag to task: "
      [] fn = "removeTagFromTask" -> "Error removing tag from task: "
      [] fn = "fetchComments" -> "Error fetching comments: "
      [] fn = "createComment" -> "Error creating comment: "
      [] fn = "addProjectMember" -> "Error adding member to project: "
      [] fn = "fetchProjectMembers" -> "Error fetching project members: "

\* The functions whose try block ends with toast.success
SuccessToast(fn) ==
    fn \in {"createProject", "updateProject", "deleteProject", "createTask",
            "updateTask", "deleteTask", "createTeam", "addTeamMember",
            "updateUserProfile", "createTag", "addProjectMember"}

\* The backend's error messages: callers cannot tell the kinds apart
Failures == {"network", "validation", "authorization"}

NoReport == [kind |-> "none", prefix |-> "", message |-> ""]

SvcIdle ==
    [pc |-> "idle", fn |-> NULL, step |-> 0, issued |-> <<>>,
     outcome |-> NULL, toast |-> NoReport, console |-> NoReport,
     ret |-> NULL, thrown |-> FALSE]

\* A caller invokes a service function: the body runs to its first await.
SvcCall(fn) ==
    /\ svc.pc \in {"idle", "done"}
    /\ svc' = [SvcIdle EXCEPT !.pc = "await", !.fn = fn, !.step = 1,
                              !.issued = <<BackendCalls(Body(fn))[1]>>]
    /\ UNCHANGED notSvc

\* A catch block that reports and throws again
SvcCatch_rethrow(message) ==
    [svc EXCEPT !.pc = "done", !.outcome = message,
                !.toast = [kind |-> "error",
                           prefix |-> ErrorPrefix(Body(svc.fn)),
                           message |-> message],
                !.thrown = TRUE]

\* The catch block: report, return the failure value
SvcCatch(message) ==
    LET body == Body(svc.fn)
        report == [kind |-> "error", prefix |-> ErrorPrefix(body),
                   message |-> message]
    IN  [svc EXCEPT !.pc = "done", !.outcome = message,
                    !.toast = IF CatchReport(body) = "toast"
                              THEN report ELSE NoReport,
                    !.console = IF CatchReport(body) = "console"
                                THEN report ELSE NoReport,
                    !.ret = CatchReturn(body)]

\* A reply handler that sends a failed request once more before giving up
SvcBackendReply_retry(outcome) ==
    /\ svc.pc = "await"
    /\ LET body == Body(svc.fn)
           calls == BackendCalls(body)
       IN  svc' =
             IF outcome # "ok" /\ Len(svc.issued) < Len(calls) + 1
             THEN [svc EXCEPT !.issued = Append(@, calls[svc.step])]
             ELSE IF outcome # "ok" THEN SvcCatch(outcome)
             ELSE IF svc.step < Len(calls)
             THEN [svc EXCEPT !.step = @ + 1,
                              !.issued = Append(@, calls[svc.step + 1])]
             ELSE [svc EXCEPT !.pc = "done", !.outcome = "ok",
                              !.ret = TryReturn(body)]
    /\ UNCHANGED notSvc

\* The awaited request comes back: `if (error) throw error`, else the body
\* goes on to its next await or to its return.
SvcBackendReply(outcome) ==
    /\ svc.pc = "await"
    /\ LET body == Body(svc.fn)
           calls == BackendCalls(body)
       IN  svc' =
             IF outcome # "ok" THEN SvcCatch(outcome)
             ELSE IF svc.step < Len(calls)
             THEN [svc EXCEPT !.step = @ + 1,
                              !.issued = Append(@, calls[svc.step + 1])]
             ELSE [svc EXCEPT !.pc = "done", !.outcome = "ok",
                              !.toast = IF SuccessToast(body)
                                        THEN [kind |-> "success",
                                              prefix |-> "", message |-> ""]
                                        ELSE NoReport,
                              !.ret = TryReturn(body)]
    /\ UNCHANGED notSvc

\* ------------------------------------------------------------ Kanban board
\* The (title, description) pairs the board is exercised with:
\* ("Ab", null) and ("b", "A").
KanbanTexts == {[title |-> <<"A", "b">>, description |-> NullText],
                [title |-> <<"b">>, description |-> <<"A">>]}

\* The search box contents tried: "", "a", "ab".
SearchTerms == {<<>>, <<"a">>, <<"a", "b">>}

\* interface Task, as far as the board reads it
KanbanTask(id, text, status, priority) ==
    [id |-> id, title |-> text.title, description |-> text.description,
     status |-> status, priority |-> priority, project_id |-> 1]

\* Task lists of length n whose ids are the positions 1..n
KanbanTaskLists(n) ==
    { [i \in 1..n |-> KanbanTask(i, f[i].text, f[i].status, f[i].priority)] :
        f \in [1..n -> [text : KanbanTexts, status : InputStatuses,
                        priority : Priorities]] }

\* matchesSearch of filteredTasks
matchesSearch(task, term) ==
    \/ term = <<>>
    \/ StrIncludes(toLowerCase(task.title), toLowerCase(term))
    \/ /\ task.description # NullText
       /\ task.description # <<>>
       /\ StrIncludes(toLowerCase(task.description), toLowerCase(term))

\* matchesPriority with the "nothing selected" case dropped
matchesPriority_noEmptyCase(task, priority) ==
    Includes(priority, task.priority)

\* matchesPriority of filteredTasks
matchesPriority(task, priority) ==
    \/ Len(priority) = 0
    \/ Includes(priority, task.priority)

\* filteredTasks with || in place of && in its return
filteredTasks_or(list, term, flt) ==
    LET keep(task) == matchesSearch(task, term)
                      \/ matchesPriority(task, flt.priority)
    IN  SelectSeq(list, keep)

\* const filteredTasks = tasks.filter(...)
filteredTasks(list, term, flt) ==
    LET keep(task) == matchesSearch(task, term)
                      /\ matchesPriority(task, flt.priority)
    IN  SelectSeq(list, keep)

\* The setFilters updater of the priority check boxes
onCheckedChange(prev, priority, checked) ==
    [prev EXCEPT !.priority =
        IF checked THEN Append(prev.priority, priority)
        ELSE LET other(p) == p # priority IN SelectSeq(prev.priority, other)]

\* No check-box change recorded
NoToggle == [phase |-> "none", priority |-> NULL, before |-> <<>>]

\* toggleLog follows a priority being checked ("on", with the selection
\* before it) and then immediately unchecked again ("off").
LogToggle(priority, checked) ==
    IF checked
    THEN [phase |-> "on", priority |-> priority, before |-> filters.priority]
    ELSE IF toggleLog.phase = "on" /\ toggleLog.priority = priority
         THEN [toggleLog EXCEPT !.phase = "off"]
         ELSE NoToggle

\* The rendered check box is checked iff the priority is selected; clicking
\* it reports the opposite value.
TogglePriority(priority) ==
    LET checked == ~Includes(filters.priority, priority) IN
    /\ filters' = onCheckedChange(filters, priority, checked)
    /\ toggleLog' = LogToggle(priority, checked)
    /\ UNCHANGED <<kbTasks, searchTerm, notKanban>>

\* onChange of the search input
SetSearchTerm(term) ==
    /\ term # searchTerm
    /\ searchTerm' = term
    /\ UNCHANGED <<kbTasks, filters, toggleLog, notKanban>>

\* What the board shows in the current state
Shown == filteredTasks(kbTasks, searchTerm, filters)

\* The tasks of column status: tasks.filter(task => task.status === status)
ColumnTasks(status) ==
    LET inColumn(task) == task.status = status IN SelectSeq(Shown, inColumn)

\* KanbanColumn's card list for its props tasks and status:
\* tasks.filter(task => task.status === status).map(... TaskCard ...)
ColumnCards(list, status) ==
    LET inColumn(task) == task.status = status IN SelectSeq(list, inColumn)

\* The number of tasks of a list with the status
CountStatus(list, status) ==
    LET hasStatus(t) == t.status = status IN Len(SelectSeq(list, hasStatus))

\* The keys of columnCounts
CountKeys == {"todo", "in-progress", "review", "completed"}

\* columnCounts computed from the tasks prop instead of filteredTasks
columnCounts_unfiltered ==
    [status \in CountKeys |-> CountStatus(kbTasks, status)]

\* const columnCounts: one filteredTasks.filter(...).length per status key
columnCounts ==
    LET filtered == Shown
    IN  [status \in CountKeys |-> CountStatus(filtered, status)]

\* The count badge of the column at position c: count={columnCounts[status]}
ColumnCount(c) == columnCounts[columns[c].status]

\* ----------------------------------------------------------------- backend
ProjectIds == 1..MaxProjects

\* How a request to the backend ends for the page: with data or an error
Outcomes == {"ok", "network"}

\* A row of table tasks.  Title, description and priority are not read by
\* the operations below and are held fixed.
Task(id, project_id, status) ==
    [id |-> id, title |-> <<"b">>, description |-> NullText,
     status |-> status, priority |-> "medium", project_id |-> project_id]

\* .eq('project_id', projectId)
TasksOf(projectId) == { t \in tasks : t.project_id = projectId }

\* .eq('id', id)
TaskById(id) == { t \in tasks : t.id = id }

\* The rows of a set in the order of their ids, smallest first
RECURSIVE RowsById(_)
RowsById(rows) ==
    IF rows = {} THEN <<>>
    ELSE LET first == CHOOSE t \in rows : \A u \in rows : t.id <= u.id
         IN  <<first>> \o RowsById(rows \ {first})

\* A row-change notification of table tasks
Payload(eventType, new, old) ==
    [eventType |-> eventType, new |-> new, old |-> old]

NoRow == [id |-> 0]

\* The notifications the open subscription receives for a sequence of row
\* changes: those whose row matches filter project_id=eq.<channel>
Publish(payloads) ==
    LET matches(p) ==
            IF p.eventType = "DELETE" THEN p.old.project_id = channel
            ELSE p.new.project_id = channel
    IN  IF channel = 0 THEN notifs
        ELSE notifs \o SelectSeq(payloads, matches)

\* Referential integrity between tasks and their project, kept by the
\* backend: a task row may only refer to an existing project row.
ReferencesProject(project_id) == project_id \in projects

\* How the backend treats the delete of a project row that tasks still refer
\* to: it refuses the delete, or deletes the referring tasks with it.
ForeignKeyActions == {"restrict", "cascade"}

ProjectDeleteRefused(id, fk) == TasksOf(id) # {} /\ fk = "restrict"

\* insert into tasks, sent by any client; it fails when the project is gone.
BackendInsertTask(project_id, status) ==
    /\ nextTaskId <= MaxTasks
    /\ IF ReferencesProject(project_id)
       THEN LET row == Task(nextTaskId, project_id, status) IN
            /\ tasks' = tasks \cup {row}
            /\ nextTaskId' = nextTaskId + 1
            /\ notifs' = Publish(<<Payload("INSERT", row, NoRow)>>)
       ELSE UNCHANGED <<tasks, nextTaskId, notifs>>
    /\ UNCHANGED <<projects, channel>>

\* update tasks set status where id, sent by another client
BackendUpdateTask(id, status) ==
    /\ \E row \in TaskById(id) :
          LET new == [row EXCEPT !.status = status] IN
          /\ row.status # status
          /\ tasks' = (tasks \ {row}) \cup {new}
          /\ notifs' = Publish(<<Payload("UPDATE", new, [id |-> id])>>)
    /\ UNCHANGED <<projects, nextTaskId, channel>>

\* delete from tasks where id, sent by another client
BackendDeleteTask(id) ==
    /\ \E row \in TaskById(id) :
          /\ tasks' = tasks \ {row}
          /\ notifs' = Publish(<<Payload("DELETE", NoRow, row)>>)
    /\ UNCHANGED <<projects, nextTaskId, channel>>

\* The DELETE notifications of a set of removed rows
DeletePayloads(rows) ==
    LET ordered == RowsById(rows) IN
    [i \in 1..Len(ordered) |-> Payload("DELETE", NoRow, ordered[i])]

\* ----------------------------------------------------------- deleteProject
DpIdle ==
    [pc |-> "idle", id |-> 0, tasksStep |-> "none", projectStep |-> "none",
     removed |-> FALSE, ret |-> NULL, toast |-> NoReport,
     navigated |-> FALSE, deleted |-> {}]

\* ProjectHeader.handleDeleteProject calls deleteProject(project.id), which
\* sends its first request: delete from tasks where project_id = id.
DeleteProjectStart(id) ==
    /\ dp.pc \in {"idle", "done"}
    /\ dp' = [DpIdle EXCEPT !.pc = "tasks", !.id = id]
    /\ UNCHANGED <<backendVars, dpOk, notDelete>>

\* deleteProject's catch block, and a handleDeleteProject that navigates
\* without `if (success)`
DeleteProjectCatch_navigate(call, message) ==
    [call EXCEPT !.pc = "done", !.ret = "false",
                 !.toast = [kind |-> "error",
                            prefix |-> ErrorPrefix("deleteProject"),
                            message |-> message],
                 !.navigated = TRUE]

\* deleteProject's catch block, and handleDeleteProject's `if (success)`
DeleteProjectCatch(call, message) ==
    [call EXCEPT !.pc = "done", !.ret = "false",
                 !.toast = [kind |-> "error",
                            prefix |-> ErrorPrefix("deleteProject"),
                            message |-> message]]

\* deleteProject without `if (tasksError) throw tasksError`
DeleteProjectTasksReply_noThrow(outcome) ==
    /\ dp.pc = "tasks"
    /\ tasks' = IF outcome = "ok" THEN tasks \ TasksOf(dp.id) ELSE tasks
    /\ notifs' = IF outcome = "ok"
                 THEN Publish(DeletePayloads(TasksOf(dp.id))) ELSE notifs
    /\ dp' = [dp EXCEPT !.pc = "project",
                        !.tasksStep = IF outcome = "ok" THEN "ok"
                                      ELSE "failed",
                        !.projectStep = "issued",
                        !.deleted = IF outcome = "ok"
                                    THEN { t.id : t \in TasksOf(dp.id) }
                                    ELSE {}]
    /\ UNCHANGED <<projects, nextTaskId, channel, dpOk, notDelete>>

\* The task-delete request comes back.  On error: throw tasksError.
\* Otherwise the project-delete request is sent.
DeleteProjectTasksReply(outcome) ==
    /\ dp.pc = "tasks"
    /\ IF outcome = "ok"
       THEN /\ tasks' = tasks \ TasksOf(dp.id)
            /\ notifs' = Publish(DeletePayloads(TasksOf(dp.id)))
            /\ dp' = [dp EXCEPT !.pc = "project", !.tasksStep = "ok",
                                !.projectStep = "issued",
                                !.deleted = { t.id : t \in TasksOf(dp.id) }]
       ELSE /\ dp' = DeleteProjectCatch([dp EXCEPT !.tasksStep = "failed"],
                                        outcome)
            /\ UNCHANGED <<tasks, notifs>>
    /\ UNCHANGED <<projects, nextTaskId, channel, dpOk, notDelete>>

\* deleteProject without `if (error) throw error` after the project delete
DeleteProjectProjectReply_noThrow(outcome, fk) ==
    /\ dp.pc = "project"
    /\ LET failed == outcome # "ok" \/ ProjectDeleteRefused(dp.id, fk)
       IN  /\ projects' = IF failed THEN projects ELSE projects \ {dp.id}
           /\ tasks' = IF failed THEN tasks ELSE tasks \ TasksOf(dp.id)
           /\ notifs' = IF failed THEN notifs
                        ELSE Publish(DeletePayloads(TasksOf(dp.id)))
           /\ dp' = [dp EXCEPT !.pc = "done",
                               !.projectStep = IF failed THEN "failed"
                                               ELSE "ok",
                               !.removed = ~failed /\ dp.id \in projects,
                               !.ret = "true", !.navigated = TRUE]
           /\ dpOk' = dpOk \cup {dp.id}
    /\ UNCHANGED <<nextTaskId, channel, notDelete>>

\* The project-delete request comes back.  On error: throw error.  Otherwise
\* toast.success, return true, and handleDeleteProject navigates to /projects.
DeleteProjectProjectReply(outcome, fk) ==
    /\ dp.pc = "project"
    /\ LET refused == outcome = "ok" /\ ProjectDeleteRefused(dp.id, fk)
           failed == outcome # "ok" \/ refused
           message == IF refused THEN "validation" ELSE outcome
       IN  IF failed
           THEN /\ dp' = DeleteProjectCatch(
                            [dp EXCEPT !.projectStep = "failed"], message)
                /\ UNCHANGED <<projects, tasks, notifs, dpOk>>
           ELSE /\ projects' = projects \ {dp.id}
                /\ tasks' = tasks \ TasksOf(dp.id)
                /\ notifs' = Publish(DeletePayloads(TasksOf(dp.id)))
                /\ dp' = [dp EXCEPT !.pc = "done", !.projectStep = "ok",
                                    !.removed = dp.id \in projects,
                                    !.ret = "true",
                                    !.toast = [kind |-> "success",
                                               prefix |-> "",
                                               message |-> ""],
                                    !.navigated = TRUE]
                /\ dpOk' = dpOk \cup {dp.id}
    /\ UNCHANGED <<nextTaskId, channel, notDelete>>

\* ------------------------------------------------------------ ProjectDetail
\* The page is open when the route is /projects/:projectId.
PageOpen == pdRoute \in ProjectIds

Reverse(seq) == [i \in 1..Len(seq) |-> seq[Len(seq) + 1 - i]]

\* fetchTasks without .eq('project_id', projectId)
fetchTasks_noFilter(projectId, outcome) ==
    IF outcome = "ok" THEN Reverse(RowsById(tasks)) ELSE <<>>

\* fetchTasks(projectId): the rows of the project, newest first (ids are
\* given in creation order); on error a toast and [].
fetchTasks(projectId, outcome) ==
    IF outcome = "ok" THEN Reverse(RowsById(TasksOf(projectId))) ELSE <<>>

FtIdle == [pc |-> "idle", projectId |-> 0, outcome |-> NULL, data |-> <<>>]

\* A page calls fetchTasks(projectId): the select is sent.
FetchTasksCall(projectId) ==
    /\ ft.pc \in {"idle", "done"}
    /\ ft' = [FtIdle EXCEPT !.pc = "await", !.projectId = projectId]
    /\ UNCHANGED <<backendVars, notFetch>>

\* The select comes back and fetchTasks returns.
FetchTasksReturn(outcome) ==
    /\ ft.pc = "await"
    /\ ft' = [ft EXCEPT !.pc = "done", !.outcome = outcome,
                        !.data = fetchTasks(ft.projectId, outcome)]
    /\ UNCHANGED <<backendVars, notFetch>>

\* Nothing is being dragged
NoDrag == [id |-> 0, status |-> NULL]

\* One run of loadProjectAndTasks
Load(projectId) ==
    [projectId |-> projectId, pc |-> "project", outcome |-> NULL,
     data |-> <<>>]

RemoveAt(seq, i) == SubSeq(seq, 1, i - 1) \o SubSeq(seq, i + 1, Len(seq))

\* The page leaves the route: its state is discarded, the effect cleanups
\* remove the channels, and what the unmounted page still awaits no longer
\* reaches any state.
Unmounted ==
    /\ pdRoute' = 0
    /\ pdProject' = 0
    /\ pdTasks' = <<>>
    /\ channel' = 0
    /\ notifs' = <<>>
    /\ loads' = <<>>
    /\ drag' = NoDrag
    /\ pdIsLoading' = FALSE

\* The user opens /projects/:projectId.  useState initial values; the load
\* effect sets isLoading and sends the project select, the subscription
\* effect opens the channel filtered to the project.
OpenProject(projectId) ==
    /\ ~PageOpen
    /\ pdRoute' = projectId
    /\ pdProject' = 0
    /\ pdTasks' = <<>>
    /\ pdIsLoading' = TRUE
    /\ loads' = <<Load(projectId)>>
    /\ channel' = projectId
    /\ notifs' = <<>>
    /\ UNCHANGED <<projects, tasks, nextTaskId, dropVars, notPage>>

\* The route's projectId changes while the page stays mounted: both effects
\* run again, the cleanup having removed the earlier channels.
ChangeRoute(projectId) ==
    /\ PageOpen
    /\ projectId # pdRoute
    /\ Len(loads) < MaxLoads
    /\ pdRoute' = projectId
    /\ pdIsLoading' = TRUE
    /\ loads' = Append(loads, Load(projectId))
    /\ channel' = projectId
    /\ notifs' = <<>>
    /\ drag' = NoDrag
    /\ UNCHANGED <<projects, tasks, nextTaskId, pdProject, pdTasks, upd,
                   notPage>>

\* A load that goes on to setProject and fetchTasks whatever the project
\* select returned
LoadProjectReply_ignoreError(i, outcome) ==
    /\ loads[i].pc = "project"
    /\ pdProject' = loads[i].projectId
    /\ loads' = [loads EXCEPT ![i].pc = "tasks"]
    /\ UNCHANGED <<pdRoute, channel, notifs, drag, pdIsLoading, pdTasks>>
    /\ UNCHANGED <<projects, tasks, nextTaskId, upd, notPage>>

\* The project select of load i comes back.  On error (or no such row, for
\* .single()): catch, navigate("/projects").  Otherwise setProject and
\* fetchTasks sends its select.
LoadProjectReply(i, outcome) ==
    /\ loads[i].pc = "project"
    /\ IF outcome = "ok" /\ loads[i].projectId \in projects
       THEN /\ pdProject' = loads[i].projectId
            /\ loads' = [loads EXCEPT ![i].pc = "tasks"]
            /\ UNCHANGED <<pdRoute, channel, notifs, drag, pdIsLoading,
                           pdTasks>>
       ELSE Unmounted
    /\ UNCHANGED <<projects, tasks, nextTaskId, upd, notPage>>

\* The backend answers the task select of load i.
FetchTasksReply(i, outcome) ==
    /\ loads[i].pc = "tasks"
    /\ loads' = [loads EXCEPT
                   ![i].pc = "return",
                   ![i].outcome = outcome,
                   ![i].data = fetchTasks(loads[i].projectId, outcome)]
    /\ UNCHANGED <<backendVars, pdRoute, pdProject, pdTasks, pdIsLoading,
                   dropVars, notPage>>

\* A load that sets state only if no load was issued after it
LoadTasksReturn_latestOnly(i) ==
    /\ loads[i].pc = "return"
    /\ pdTasks' = IF i = Len(loads) THEN loads[i].data ELSE pdTasks
    /\ pdIsLoading' = FALSE
    /\ loads' = RemoveAt(loads, i)
    /\ UNCHANGED <<backendVars, pdRoute, pdProject, dropVars, notPage>>

\* fetchTasks has returned to load i: setTasks(tasksData), and in the
\* finally block setIsLoading(false).
LoadTasksReturn(i) ==
    /\ loads[i].pc = "return"
    /\ pdTasks' = loads[i].data
    /\ pdIsLoading' = FALSE
    /\ loads' = RemoveAt(loads, i)
    /\ UNCHANGED <<backendVars, pdRoute, pdProject, dropVars, notPage>>

\* A handler whose INSERT case appends and whose UPDATE case replaces the
\* entry at the head of the list
HandlePayload_misplaced(prev, payload) ==
    CASE payload.eventType = "INSERT" -> prev \o <<payload.new>>
      [] payload.eventType = "UPDATE" ->
            [i \in 1..Len(prev) |-> IF i = 1 THEN payload.new ELSE prev[i]]
      [] payload.eventType = "DELETE" ->
            LET other(task) == task.id # payload.old.id
            IN  SelectSeq(prev, other)
      [] OTHER -> prev

\* A handler without the UPDATE case
HandlePayload_ignoreUpdate(prev, payload) ==
    CASE payload.eventType = "INSERT" -> <<payload.new>> \o prev
      [] payload.eventType = "DELETE" ->
            LET other(task) == task.id # payload.old.id
            IN  SelectSeq(prev, other)
      [] OTHER -> prev

\* A handler whose INSERT case skips a row whose id the list already holds
HandlePayload_dedup(prev, payload) ==
    CASE payload.eventType = "INSERT" ->
            IF \E i \in 1..Len(prev) : prev[i].id = payload.new.id
            THEN prev ELSE <<payload.new>> \o prev
      [] payload.eventType = "UPDATE" ->
            [i \in 1..Len(prev) |->
                IF prev[i].id = payload.new.id THEN payload.new ELSE prev[i]]
      [] payload.eventType = "DELETE" ->
            LET other(task) == task.id # payload.old.id
            IN  SelectSeq(prev, other)
      [] OTHER -> prev

\* The tasksChannel handler's new list
HandlePayload(prev, payload) ==
    CASE payload.eventType = "INSERT" -> <<payload.new>> \o prev
      [] payload.eventType = "UPDATE" ->
            [i \in 1..Len(prev) |->
                IF prev[i].id = payload.new.id THEN payload.new ELSE prev[i]]
      [] payload.eventType = "DELETE" ->
            LET other(task) == task.id # payload.old.id
            IN  SelectSeq(prev, other)
      [] OTHER -> prev

\* The oldest notification is delivered to the tasksChannel handler.
DeliverNotif ==
    /\ PageOpen
    /\ notifs # <<>>
    /\ pdTasks' = HandlePayload(pdTasks, Head(notifs))
    /\ notifs' = Tail(notifs)
    /\ UNCHANGED <<projects, tasks, nextTaskId, channel, pdRoute, pdProject,
                   pdIsLoading, loads, dropVars, notPage>>

\* The transport delivers the oldest notification and will deliver it once
\* more (the handler is called again with the same payload later).
RedeliverNotif ==
    /\ PageOpen
    /\ notifs # <<>>
    /\ Len(pdTasks) <= MaxTasks
    /\ pdTasks' = HandlePayload(pdTasks, Head(notifs))
    /\ UNCHANGED <<backendVars, pdRoute, pdProject, pdIsLoading, loads,
                   dropVars, notPage>>

\* The subscription is open and the page showing it is mounted
Subscribed == PageOpen /\ channel # 0

\* A page that reacts to the lost subscription by fetching the tasks again
Disconnect_refetch ==
    /\ Subscribed
    /\ Len(loads) < MaxLoads
    /\ channel' = 0
    /\ notifs' = <<>>
    /\ loads' = Append(loads, [Load(pdRoute) EXCEPT !.pc = "tasks"])
    /\ UNCHANGED <<projects, tasks, nextTaskId, pdRoute, pdProject, pdTasks,
                   pdIsLoading, dropVars, notPage>>

\* The connection of the tasks channel is lost: the backend sends it nothing
\* more and what was under way is lost.  The channel was subscribed with
\* .subscribe() and no status callback, so no code of the page runs.
Disconnect ==
    /\ Subscribed
    /\ channel' = 0
    /\ notifs' = <<>>
    /\ UNCHANGED <<projects, tasks, nextTaskId, pageVars, dropVars, notPage>>

\* ------------------------------------------------------------- drag and drop
\* The page renders the board once loading is over and the project is set.
BoardRendered == PageOpen /\ ~pdIsLoading /\ pdProject # 0

\* The tasks prop of every KanbanColumn
BoardTasks == filteredTasks(pdTasks, searchTerm, filters)

UpdIdle ==
    [pc |-> "idle", id |-> 0, column |-> NULL, status |-> NULL,
     issued |-> <<>>, ret |-> NULL, toast |-> NoReport]

\* The backend request updateTaskStatus(id, status) makes: one update of the
\* row's status, through updateTask
UpdateRequest(id, status) ==
    [table |-> "tasks", op |-> "update", id |-> id, status |-> status]

\* TaskCard.handleDragStart on the i-th card shown.  One gesture at a time:
\* the user starts the next drag after the previous drop's call came back,
\* and its toast is gone by then.
DragStart(i) ==
    /\ BoardRendered
    /\ i \in 1..Len(BoardTasks)
    /\ drag = NoDrag
    /\ upd.pc # "await"
    /\ drag' = [id |-> BoardTasks[i].id, status |-> BoardTasks[i].status]
    /\ upd' = UpdIdle
    /\ UNCHANGED <<backendVars, pageVars, notPage>>

\* tasks.find(t => t.id === id): the first match, or none
Find(list, id) ==
    LET hits == { i \in 1..Len(list) : list[i].id = id } IN
    IF hits = {} THEN <<>>
    ELSE <<list[CHOOSE i \in hits : \A j \in hits : i <= j]>>

\* handleDrop that hands the card's own status to onDrop
DropCall_cardStatus(col) ==
    LET found == Find(BoardTasks, drag.id) IN
    IF drag.status # col /\ found # <<>>
    THEN [UpdIdle EXCEPT !.pc = "await", !.id = found[1].id,
                         !.column = col, !.status = found[1].status,
                         !.issued = <<UpdateRequest(found[1].id,
                                                    found[1].status)>>]
    ELSE [UpdIdle EXCEPT !.column = col]

\* handleDrop without the comparison of the card's status with the column's
DropCall_noGuard(col) ==
    LET found == Find(BoardTasks, drag.id) IN
    IF found # <<>>
    THEN [UpdIdle EXCEPT !.pc = "await", !.id = found[1].id,
                         !.column = col, !.status = col,
                         !.issued = <<UpdateRequest(found[1].id, col)>>]
    ELSE [UpdIdle EXCEPT !.column = col]

\* KanbanColumn.handleDrop on the column of status col, then handleTaskDrop:
\* updateTaskStatus(fullTask.id, status) is sent, or nothing is (the column
\* dropped on stays on record either way).
DropCall(col) ==
    LET found == Find(BoardTasks, drag.id) IN
    IF drag.status # col /\ found # <<>>
    THEN [UpdIdle EXCEPT !.pc = "await", !.id = found[1].id,
                         !.column = col, !.status = col,
                         !.issued = <<UpdateRequest(found[1].id, col)>>]
    ELSE [UpdIdle EXCEPT !.column = col]

\* A drop that moves the card in the local list before the call comes back
Drop_optimistic(c) ==
    /\ BoardRendered
    /\ drag # NoDrag
    /\ upd.pc # "await"
    /\ upd' = DropCall(columns[c].status)
    /\ drag' = NoDrag
    /\ pdTasks' = [i \in 1..Len(pdTasks) |->
                      IF pdTasks[i].id = drag.id
                      THEN [pdTasks[i] EXCEPT !.status = columns[c].status]
                      ELSE pdTasks[i]]
    /\ UNCHANGED <<backendVars, pdRoute, pdProject, pdIsLoading, loads,
                   notPage>>

\* The dragged card is dropped on column c.
Drop(c) ==
    /\ BoardRendered
    /\ drag # NoDrag
    /\ upd.pc # "await"
    /\ upd' = DropCall(columns[c].status)
    /\ drag' = NoDrag
    /\ UNCHANGED <<backendVars, pageVars, notPage>>

\* The status of task id in the backend, or "gone"
StatusOf(rows, id) ==
    IF \E t \in rows : t.id = id
    THEN (CHOOSE t \in rows : t.id = id).status
    ELSE "gone"

\* Room for one more notification
CanPublish == channel = 0 \/ Len(notifs) < MaxNotifs

\* updateTask's request comes back.  The update with .single() fails on a
\* backend error and when no row has the id; then toast.error, return null.
\* Otherwise the row is updated, toast.success, return data.
UpdateTaskReply(outcome) ==
    /\ upd.pc = "await"
    /\ CanPublish
    /\ IF outcome = "ok" /\ TaskById(upd.id) # {}
       THEN LET row == CHOOSE t \in tasks : t.id = upd.id
                new == [row EXCEPT !.status = upd.status]
            IN  /\ tasks' = (tasks \ {row}) \cup {new}
                /\ notifs' = Publish(<<Payload("UPDATE", new, [id |-> row.id])>>)
                /\ upd' = [UpdIdle EXCEPT !.pc = "done", !.ret = "data",
                                          !.toast = [kind |-> "success",
                                                     prefix |-> "",
                                                     message |-> ""]]
       ELSE /\ upd' = [UpdIdle EXCEPT
                         !.pc = "done", !.ret = CatchReturn("updateTask"),
                         !.toast = [kind |-> "error",
                                    prefix |-> ErrorPrefix("updateTask"),
                                    message |-> IF outcome = "ok"
                                                THEN "validation"
                                                ELSE outcome]]
            /\ UNCHANGED <<tasks, notifs>>
    /\ UNCHANGED <<projects, nextTaskId, channel, pageVars, drag, notPage>>

\* ------------------------------------------------- a second client's drop
\* The other client has no call in flight
OcIdle == [pc |-> "idle", id |-> 0, from |-> NULL, status |-> NULL,
           ret |-> NULL, error |-> NULL]

\* On another client's board the card of task id is dropped on the column of
\* status: its handleDrop compares with the status the card shows there,
\* and its handleTaskDrop sends updateTaskStatus(id, status).  The drops
\* followed are those that race with a call of this client: same task,
\* another column, this client's call in flight.
OtherClientDrop(id, status) ==
    /\ oc.pc # "await"
    /\ upd.pc = "await"
    /\ id = upd.id
    /\ status # upd.status
    /\ \E row \in TaskById(id) :
          /\ row.status # status
          /\ oc' = [OcIdle EXCEPT !.pc = "await", !.id = id,
                                  !.from = row.status, !.status = status]
    /\ UNCHANGED <<backendVars, pageVars, dropVars, notRace>>

\* An update that is refused when the row no longer has the status the card
\* showed when it was dropped
OtherClientUpdateReply_firstWins(outcome) ==
    /\ oc.pc = "await"
    /\ CanPublish
    /\ IF outcome = "ok" /\ TaskById(oc.id) # {}
          /\ StatusOf(tasks, oc.id) = oc.from
       THEN LET row == CHOOSE t \in tasks : t.id = oc.id
                new == [row EXCEPT !.status = oc.status]
            IN  /\ tasks' = (tasks \ {row}) \cup {new}
                /\ notifs' = Publish(<<Payload("UPDATE", new, [id |-> row.id])>>)
                /\ oc' = [oc EXCEPT !.pc = "done", !.ret = "data"]
       ELSE /\ oc' = [oc EXCEPT !.pc = "done",
                                !.ret = CatchReturn("updateTask"),
                                !.error = IF outcome = "ok" THEN "validation"
                                          ELSE outcome]
            /\ UNCHANGED <<tasks, notifs>>
    /\ UNCHANGED <<projects, nextTaskId, channel, pageVars, dropVars, notRace>>

\* The other client's updateTask request comes back: the same update by id
\* with .single(), whatever has been written to the row since the drop.
OtherClientUpdateReply(outcome) ==
    /\ oc.pc = "await"
    /\ CanPublish
    /\ IF outcome = "ok" /\ TaskById(oc.id) # {}
       THEN LET row == CHOOSE t \in tasks : t.id = oc.id
                new == [row EXCEPT !.status = oc.status]
            IN  /\ tasks' = (tasks \ {row}) \cup {new}
                /\ notifs' = Publish(<<Payload("UPDATE", new, [id |-> row.id])>>)
                /\ oc' = [oc EXCEPT !.pc = "done", !.ret = "data"]
       ELSE /\ oc' = [oc EXCEPT !.pc = "done",
                                !.ret = CatchReturn("updateTask"),
                                !.error = IF outcome = "ok" THEN "validation"
                                          ELSE outcome]
            /\ UNCHANGED <<tasks, notifs>>
    /\ UNCHANGED <<projects, nextTaskId, channel, pageVars, dropVars, notRace>>

\* -------------------------------------------------------------- invitations
\* The teams and the users that exist
TeamIds == {1}

UserIds == {1, 2}

\* user.email of the signed-in user u; address 0 stands for the placeholder
\* general_invite@example.com, which is nobody's address
UserEmail(u) == u

PlaceholderEmail == 0

\* The role enum of the invite form
Roles == {"member", "admin"}

\* No accepted_at value
NullTime == NULL

\* new Date().toISOString(): the ISO text of the instant of the call
toISOString == "now"

\* What the backend fills in for the columns an insert leaves out
InvitationDefaults == [status |-> "pending", accepted_at |-> NullTime]

\* The token the backend issues for a new row: unique per row
IssuedToken == nextInvitationId

\* insert into team_invitations (team_id, email, role)
BackendInsertInvitation(team_id, email, role) ==
    [id |-> nextInvitationId, team_id |-> team_id, email |-> email,
     role |-> role, status |-> InvitationDefaults.status,
     accepted_at |-> InvitationDefaults.accepted_at, token |-> IssuedToken]

\* update team_invitations set <the columns of change> where id = id
BackendUpdateInvitation(id, change) ==
    LET updated(r) ==
            [c \in DOMAIN r |-> IF c \in DOMAIN change THEN change[c]
                                ELSE r[c]]
    IN  { IF r.id = id THEN updated(r) ELSE r : r \in team_invitations }

\* The page's copy of an invitation: the columns of the row its handlers read
NoInvitation == [id |-> 0]

InvitationData(r) ==
    [id |-> r.id, team_id |-> r.team_id, email |-> r.email, role |-> r.role]

\* TeamInvitationPage not mounted: before it is opened, and after it has
\* navigated away (to /auth, /teams or /)
IpClosed ==
    [pc |-> "closed", user |-> 0, token |-> 0, invitation |-> NoInvitation,
     isLoading |-> FALSE, isAccepting |-> FALSE, isDeclining |-> FALSE,
     toast |-> NULL]

\* TeamPage with no invitation call in progress
TpIdle == [pc |-> "idle", teamId |-> 0]

\* /team/invite/<token> is opened by user (0: nobody is signed in): the
\* useState initial values, and fetchInvitation sends its select.  The two
\* pages are routes of one browser tab: one of them is open at a time.
OpenInvitationPage(user, token) ==
    /\ ip.pc = "closed"
    /\ tp.pc = "idle"
    /\ ip' = [IpClosed EXCEPT !.pc = "fetch", !.user = user, !.token = token,
                              !.isLoading = TRUE]
    /\ UNCHANGED <<team_invitations, team_members, nextInvitationId, tp,
                   notInvite>>

\* fetchInvitation's select .eq('token', token).single() comes back.  With a
\* row the invitation is set, and the sign-in effect sends a visitor who is
\* not signed in to /auth; without one the page shows the invalid-link card.
FetchInvitationReply(outcome) ==
    /\ ip.pc = "fetch"
    /\ LET rows == { r \in team_invitations : r.token = ip.token } IN
       IF outcome = "ok" /\ rows # {}
       THEN LET data == CHOOSE r \in rows : TRUE IN
            IF ip.user = 0
            THEN ip' = IpClosed
            ELSE ip' = [ip EXCEPT !.pc = "idle",
                                  !.invitation = InvitationData(data),
                                  !.isLoading = FALSE]
       ELSE ip' = [ip EXCEPT !.pc = "idle", !.isLoading = FALSE,
                             !.toast = "invalid-link"]
    /\ UNCHANGED <<team_invitations, team_members, nextInvitationId, tp,
                   notInvite>>

\* The visitor leaves the page.
LeaveInvitationPage ==
    /\ ip.pc = "idle"
    /\ ip' = IpClosed
    /\ UNCHANGED <<team_invitations, team_members, nextInvitationId, tp,
                   notInvite>>

\* A handleAccept without the comparison of the two email addresses
HandleAccept_noEmailCheck ==
    /\ ip.pc = "idle"
    /\ ip.user # 0
    /\ ip.invitation # NoInvitation
    /\ ip' = [ip EXCEPT !.pc = "member", !.isAccepting = TRUE,
                        !.toast = NULL]
    /\ UNCHANGED <<team_invitations, team_members, nextInvitationId, tp,
                   notInvite>>

\* handleAccept up to its first await: nothing without a user or an
\* invitation; on an email mismatch the error toast and, by finally,
\* isAccepting false again; otherwise the team_members insert is sent.
HandleAccept ==
    /\ ip.pc = "idle"
    /\ ip.user # 0
    /\ ip.invitation # NoInvitation
    /\ IF UserEmail(ip.user) # ip.invitation.email
       THEN ip' = [ip EXCEPT !.isAccepting = FALSE, !.toast = "mismatch"]
       ELSE ip' = [ip EXCEPT !.pc = "member", !.isAccepting = TRUE,
                             !.toast = NULL]
    /\ UNCHANGED <<team_invitations, team_members, nextInvitationId, tp,
                   notInvite>>

\* A handleAccept that goes on to the update whatever the insert returned
AcceptMemberReply_noThrow(outcome) ==
    /\ ip.pc = "member"
    /\ IF outcome = "ok"
       THEN /\ Len(team_members) < MaxMembers
            /\ team_members' =
                  Append(team_members,
                         [team_id |-> ip.invitation.team_id,
                          user_id |-> ip.user,
                          role |-> ip.invitation.role])
       ELSE UNCHANGED team_members
    /\ ip' = [ip EXCEPT !.pc = "update"]
    /\ UNCHANGED <<team_invitations, nextInvitationId, tp, notInvite>>

\* The team_members insert comes back: memberError is thrown to the catch,
\* otherwise the update of the invitation is sent.
AcceptMemberReply(outcome) ==
    /\ ip.pc = "member"
    /\ IF outcome = "ok"
       THEN /\ Len(team_members) < MaxMembers
            /\ team_members' =
                  Append(team_members,
                         [team_id |-> ip.invitation.team_id,
                          user_id |-> ip.user,
                          role |-> ip.invitation.role])
            /\ ip' = [ip EXCEPT !.pc = "update"]
       ELSE /\ ip' = [ip EXCEPT !.pc = "idle", !.isAccepting = FALSE,
                                !.toast = "accept-error"]
            /\ UNCHANGED team_members
    /\ UNCHANGED <<team_invitations, nextInvitationId, tp, notInvite>>

\* The update handleAccept sends: status and accepted_at in one statement
AcceptChange_statusOnly == [status |-> "accepted"]

AcceptChange == [status |-> "accepted", accepted_at |-> toISOString]

\* The update of the invitation comes back: success toast and navigate to
\* /teams, or the catch; isAccepting is false again either way.
AcceptUpdateReply(outcome) ==
    /\ ip.pc = "update"
    /\ IF outcome = "ok"
       THEN /\ team_invitations' =
                  BackendUpdateInvitation(ip.invitation.id, AcceptChange)
            /\ ip' = IpClosed
       ELSE /\ ip' = [ip EXCEPT !.pc = "idle", !.isAccepting = FALSE,
                                !.toast = "accept-error"]
            /\ UNCHANGED team_invitations
    /\ UNCHANGED <<team_members, nextInvitationId, tp, notInvite>>

\* handleDecline up to its await: nothing without an invitation, otherwise
\* the update is sent.
HandleDecline ==
    /\ ip.pc = "idle"
    /\ ip.invitation # NoInvitation
    /\ ip' = [ip EXCEPT !.pc = "decline", !.isDeclining = TRUE,
                        !.toast = NULL]
    /\ UNCHANGED <<team_invitations, team_members, nextInvitationId, tp,
                   notInvite>>

\* The update handleDecline sends
DeclineChange == [status |-> "declined"]

\* The decline update comes back: info toast and navigate to /, or the catch.
DeclineReply(outcome) ==
    /\ ip.pc = "decline"
    /\ IF outcome = "ok"
       THEN /\ team_invitations' =
                  BackendUpdateInvitation(ip.invitation.id, DeclineChange)
            /\ ip' = IpClosed
       ELSE /\ ip' = [ip EXCEPT !.pc = "idle", !.isDeclining = FALSE,
                                !.toast = "decline-error"]
            /\ UNCHANGED team_invitations
    /\ UNCHANGED <<team_members, nextInvitationId, tp, notInvite>>

\* TeamPage.handleInvite with a signed-in user and a current team: the insert
\* of (team_id, email, role, invited_by) is sent.
HandleInvite(teamId) ==
    /\ tp.pc = "idle"
    /\ ip.pc = "closed"
    /\ tp' = [TpIdle EXCEPT !.pc = "invite", !.teamId = teamId]
    /\ UNCHANGED <<team_invitations, team_members, nextInvitationId, ip,
                   notInvite>>

\* The insert of an invitation comes back to the handler at pc: the row
\* exists from now on, or the error goes to the catch; the handler is over.
InsertReply(pc, outcome, email, role) ==
    /\ tp.pc = pc
    /\ IF outcome = "ok"
       THEN /\ nextInvitationId <= MaxInvitations
            /\ team_invitations' = team_invitations \cup
                  {BackendInsertInvitation(tp.teamId, email, role)}
            /\ nextInvitationId' = nextInvitationId + 1
       ELSE UNCHANGED <<team_invitations, nextInvitationId>>
    /\ tp' = TpIdle
    /\ UNCHANGED <<team_members, ip, notInvite>>

\* handleInvite's insert comes back; email and role are the form's values.
HandleInviteReply(outcome, email, role) ==
    InsertReply("invite", outcome, email, role)

\* TeamPage.getInvitationLink(teamId): the select of the team's pending
\* invitations is sent.
GetInvitationLink(teamId) ==
    /\ tp.pc = "idle"
    /\ ip.pc = "closed"
    /\ tp' = [TpIdle EXCEPT !.pc = "select", !.teamId = teamId]
    /\ UNCHANGED <<team_invitations, team_members, nextInvitationId, ip,
                   notInvite>>

\* The select comes back.  On an error the handler is over; with a pending
\* invitation its token is copied and nothing is inserted; with none the
\* placeholder invitation's insert is sent.
LinkSelectReply(outcome) ==
    /\ tp.pc = "select"
    /\ LET existingInvitations ==
               { r \in team_invitations :
                     r.team_id = tp.teamId /\ r.status = "pending" }
       IN  IF outcome = "ok" /\ existingInvitations = {}
           THEN tp' = [tp EXCEPT !.pc = "insert"]
           ELSE tp' = TpIdle
    /\ UNCHANGED <<team_invitations, team_members, nextInvitationId, ip,
                   notInvite>>

\* The placeholder invitation's insert comes back.
LinkInsertReply(outcome) ==
    InsertReply("insert", outcome, PlaceholderEmail, "member")

\* getInvitationLink(teamId) called once more while a call may be in
\* flight: the menu item stays enabled, and other members' tabs run the same
\* page.  The select of the team's pending invitations is sent.
OtherGetInvitationLink(teamId) ==
    /\ ol.pc = "idle"
    /\ ip.pc = "closed"
    /\ ol' = [TpIdle EXCEPT !.pc = "select", !.teamId = teamId]
    /\ UNCHANGED <<team_invitations, team_members, nextInvitationId, ip, tp,
                   notLink>>

\* The second call's select comes back.
OtherLinkSelectReply(outcome) ==
    /\ ol.pc = "select"
    /\ LET existingInvitations ==
               { r \in team_invitations :
                     r.team_id = ol.teamId /\ r.status = "pending" }
       IN  IF outcome = "ok" /\ existingInvitations = {}
           THEN ol' = [ol EXCEPT !.pc = "insert"]
           ELSE ol' = TpIdle
    /\ UNCHANGED <<team_invitations, team_members, nextInvitationId, ip, tp,
                   notLink>>

\* The second call's insert of the placeholder invitation comes back.
OtherLinkInsertReply(outcome) ==
    /\ ol.pc = "insert"
    /\ IF outcome = "ok"
       THEN /\ nextInvitationId <= MaxInvitations
            /\ team_invitations' = team_invitations \cup
                  {BackendInsertInvitation(ol.teamId, PlaceholderEmail,
                                           "member")}
            /\ nextInvitationId' = nextInvitationId + 1
       ELSE UNCHANGED <<team_invitations, nextInvitationId>>
    /\ ol' = TpIdle
    /\ UNCHANGED <<team_members, ip, tp, notLink>>

\* ------------------------------------------ session, router and subscriptions
\* The routes of App.tsx whose pages read the auth context: the sign-in page
\* and the pages behind it.
Paths == {"/auth", "/dashboard", "/projects", "/project/:projectId",
          "/teams", "/reports", "/profile"}

\* A route: its path and, for /project/:projectId, the parameter
RouteOf(path, projectId) == [path |-> path, projectId |-> projectId]

Routes ==
    { RouteOf(path, 0) : path \in Paths \ {"/project/:projectId"} }
        \cup { RouteOf("/project/:projectId", id) : id \in ProjectIds }

\* The pages whose mount effect has
\*   if (!loading && !user) { navigate("/auth"); }
CheckedPaths == {"/dashboard", "/project/:projectId", "/teams", "/reports",
                 "/profile"}

\* useAuth().user when nobody is signed in
NoUser == 0

\* The auth context while the stored session is being read, and after
AuthLoading == [loading |-> TRUE, user |-> NoUser]

AuthOf(user) == [loading |-> FALSE, user |-> user]

\* No page's effects have run yet
NoRun == [route |-> RouteOf(NULL, 0), user |-> NoUser, loading |-> TRUE]

\* The dependencies of the mounted page's effects as of this render
Deps == [route |-> route, user |-> auth.user, loading |-> auth.loading]

\* Every effect of the current render has run
Settled == ran = Deps

\* supabase.channel(name).on('postgres_changes', {table, filter}, ...)
Channel(name, table, column, value) ==
    [name |-> name, table |-> table, column |-> column, value |-> value]

\* The channels the subscription effects of a page open for their
\* dependencies: ProjectDetail's two (if (!projectId || !user) return), the
\* Projects page's one (if (!user) return), none elsewhere.
Subscriptions(r, user) ==
    IF user = NoUser THEN {}
    ELSE IF r.path = "/project/:projectId"
    THEN {Channel("project-changes", "projects", "id", r.projectId),
          Channel("tasks-changes", "tasks", "project_id", r.projectId)}
    ELSE IF r.path = "/projects"
    THEN {Channel("projects-channel", "projects", "user_id", user)}
    ELSE {}

\* The route after the navigate call, if any, of the page's effects
Redirect(r, a) ==
    IF r.path \in CheckedPaths /\ ~a.loading /\ a.user = NoUser
    THEN RouteOf("/auth", 0)
    ELSE IF r.path = "/auth" /\ a.user # NoUser
    THEN RouteOf("/dashboard", 0)
    ELSE r

\* Effects whose cleanup removes nothing
Cleanup_keep(open) == open

\* The cleanups of the effects that last ran remove the channels they opened.
Cleanup(open) == open \ Subscriptions(ran.route, ran.user)

\* The page has rendered with new dependencies (mount, or route parameter,
\* user or loading changed): the cleanups of the previous run, then the
\* effects: the session check and the subscriptions.
RunEffects ==
    /\ ~Settled
    /\ channels' = Cleanup(channels) \cup Subscriptions(route, auth.user)
    /\ route' = Redirect(route, auth)
    /\ ran' = Deps
    /\ UNCHANGED <<auth, notSession>>

\* The user follows a link to another route of the application.
Navigate(r) ==
    /\ Settled
    /\ r # route
    /\ route' = r
    /\ UNCHANGED <<auth, ran, channels, notSession>>

\* The browser loads the application at a route: the realtime client starts
\* with no channel and the auth context starts loading.
Reload(r) ==
    /\ Settled
    /\ route' = r
    /\ auth' = AuthLoading
    /\ ran' = NoRun
    /\ channels' = {}
    /\ UNCHANGED notSession

\* The auth context has read the stored session: a user, or none.
AuthResolved(user) ==
    /\ Settled
    /\ auth.loading
    /\ auth' = AuthOf(user)
    /\ UNCHANGED <<route, ran, channels, notSession>>

\* onLoginSubmit: await signIn(...); navigate('/dashboard').
SignIn(user) ==
    /\ Settled
    /\ route.path = "/auth"
    /\ ~auth.loading /\ auth.user = NoUser
    /\ auth' = AuthOf(user)
    /\ route' = RouteOf("/dashboard", 0)
    /\ UNCHANGED <<ran, channels, notSession>>

\* handleSignOut: await signOut(); the profile page then calls
\* navigate("/auth"), the header's handler does not navigate.
SignOut ==
    /\ Settled
    /\ auth.user # NoUser
    /\ route.path # "/auth"
    /\ auth' = AuthOf(NoUser)
    /\ route' = IF route.path = "/profile" THEN RouteOf("/auth", 0) ELSE route
    /\ UNCHANGED <<ran, channels, notSession>>

\* The application not loaded in the browser
SessionIdle ==
    /\ auth = AuthLoading
    /\ route = RouteOf("/auth", 0)
    /\ ran = NoRun
    /\ channels = {}

\* ------------------------------------------------------ Reports, Dashboard
\* The page's selectedProject when it is 'all'
AllProjects == 0

\* fetchProjects(): the project rows, newest first; on error a toast and [].
fetchProjects(outcome) ==
    LET RECURSIVE Descending(_)
        Descending(ids) ==
            IF ids = {} THEN <<>>
            ELSE LET top == CHOOSE id \in ids : \A other \in ids : other <= id
                 IN  <<top>> \o Descending(ids \ {top})
    IN  IF outcome = "ok" THEN Descending(projects) ELSE <<>>

\* Neither page is open
SpIdle ==
    [page |-> NULL, projects |-> <<>>, selected |-> AllProjects,
     runs |-> <<>>, allTasks |-> <<>>, stale |-> FALSE]

\* projectsToFetch of loadStats; loadAllTasks takes every project.
projectsToFetch(list, selected) ==
    LET chosen(id) == selected = AllProjects \/ id = selected
    IN  SelectSeq(list, chosen)

\* One run of loadStats or loadAllTasks: the projects still to fetch and the
\* tasks collected so far; overtaken once a run issued later has finished.
Run(list, selected) ==
    [todo |-> projectsToFetch(list, selected), acc |-> <<>>,
     overtaken |-> FALSE]

\* The load effect runs for new dependencies:
\*   if (!projects.length) return;
\* otherwise a run starts beside those in flight and sends its first select.
StartRun(runs, list, selected) ==
    IF list = <<>> \/ projectsToFetch(list, selected) = <<>>
    THEN runs
    ELSE Append(runs, Run(list, selected))

\* The user opens /reports or /dashboard: the projects query is sent, and
\* the load effect finds projects = [].
OpenStatsPage(page) ==
    /\ sp.page = NULL
    /\ sp' = [SpIdle EXCEPT !.page = page]
    /\ UNCHANGED <<backendVars, notStats>>

\* The user leaves the page; what its runs still await reaches no state.
LeaveStatsPage ==
    /\ sp.page # NULL
    /\ sp' = SpIdle
    /\ UNCHANGED <<backendVars, notStats>>

\* The projects query (re)fetches and its data differs from what the page
\* has: the page renders with the new list and the load effect runs again.
ProjectsQueryReply(outcome) ==
    /\ sp.page # NULL
    /\ fetchProjects(outcome) # sp.projects
    /\ Len(sp.runs) < MaxLoads
    /\ sp' = [sp EXCEPT
                !.projects = fetchProjects(outcome),
                !.runs = StartRun(sp.runs, fetchProjects(outcome),
                                  sp.selected)]
    /\ UNCHANGED <<backendVars, notStats>>

\* Reports: the user picks another project (or 'all') in the Select:
\* setSelectedProject, and the load effect runs again.
SelectProject(selected) ==
    /\ sp.page = "reports"
    /\ selected # sp.selected
    /\ Len(sp.runs) < MaxLoads
    /\ sp' = [sp EXCEPT
                !.selected = selected,
                !.runs = StartRun(sp.runs, sp.projects, selected)]
    /\ UNCHANGED <<backendVars, notStats>>

\* The loop of run i is over: setAllTasks / setTaskStats with what the run
\* collected.  The runs issued before it and still in flight are overtaken.
FinishRun(i, acc) ==
    [sp EXCEPT !.allTasks = acc,
               !.stale = sp.runs[i].overtaken,
               !.runs = RemoveAt(
                   [j \in 1..Len(sp.runs) |->
                       IF j < i THEN [sp.runs[j] EXCEPT !.overtaken = TRUE]
                       ELSE sp.runs[j]], i)]

\* The select of run i's `await fetchTasks(project.id)` comes back: the rows
\* are pushed, and the loop goes on to the next project or ends.
StatsFetchReply(i, outcome) ==
    /\ sp.page # NULL
    /\ LET run == sp.runs[i]
           acc == run.acc \o fetchTasks(Head(run.todo), outcome)
       IN  IF Len(run.todo) > 1
           THEN sp' = [sp EXCEPT !.runs[i].todo = Tail(run.todo),
                                 !.runs[i].acc = acc]
           ELSE sp' = FinishRun(i, acc)
    /\ UNCHANGED <<backendVars, notStats>>

\* ------------------------------------------------------------ statistics
\* Dates are days counted from today (new Date()): 0 is today.
Today == 0

\* due_date null: no day
NullDate == 1000

\* A task as the statistics read it
StatTask(status, priority, due_date, created_at) ==
    [status |-> status, priority |-> priority, due_date |-> due_date,
     created_at |-> created_at]

\* The (due_date, created_at) pairs the tasks of the inputs are given: no
\* due date, a due date that has passed on a task created before the last
\* 30 days, and a due date to come
InputDates == {<<NullDate, -1>>, <<-1, -40>>, <<1, -1>>}

\* The task lists of length n a page may have fetched
StatTaskLists(n) ==
    { [i \in 1..n |-> StatTask(f[i].status, f[i].priority, f[i].dates[1],
                               f[i].dates[2])] :
        f \in [1..n -> [status : Statuses, priority : Priorities,
                        dates : InputDates]] }

\* isOverdue(dateString): false for null, else date < today at 00:00
isOverdue(dateString) ==
    IF dateString = NullDate THEN FALSE ELSE dateString < Today

\* list.filter(t => t.status === status).length
CountByStatus(list, status) ==
    LET hasStatus(t) == t.status = status IN Len(SelectSeq(list, hasStatus))

\* list.filter(t => t.priority === priority).length
CountByPriority(list, priority) ==
    LET hasPriority(t) == t.priority = priority
    IN  Len(SelectSeq(list, hasPriority))

\* Status counts that look for 'in_progress' instead of 'in-progress'
StatusCounts_misspelt(list) ==
    [total |-> Len(list),
     completed |-> CountByStatus(list, "completed"),
     inProgress |-> CountByStatus(list, "in_progress"),
     todo |-> CountByStatus(list, "todo"),
     review |-> CountByStatus(list, "review")]

\* The status fields of stats / taskStatsData, the same in the three pages
StatusCounts(list) ==
    [total |-> Len(list),
     completed |-> CountByStatus(list, "completed"),
     inProgress |-> CountByStatus(list, "in-progress"),
     todo |-> CountByStatus(list, "todo"),
     review |-> CountByStatus(list, "review")]

\* The priority fields of stats (Reports) / priorityStatsData (Profile)
PriorityCounts(list) ==
    [high |-> CountByPriority(list, "high"),
     medium |-> CountByPriority(list, "medium"),
     low |-> CountByPriority(list, "low")]

\* Dashboard's overdue: isOverdue(t.due_date) && t.status !== 'completed'
OverdueCount(list) ==
    LET overdue(t) == isOverdue(t.due_date) /\ t.status # "completed"
    IN  Len(SelectSeq(list, overdue))

\* [...].filter(item => item.value > 0)
NonZero(items) ==
    LET positive(item) == item.value > 0 IN SelectSeq(items, positive)

\* Chart data that keep the categories whose count is zero
statusData_unfiltered(stats) ==
    <<[name |-> "To Do", value |-> stats.todo],
      [name |-> "In Progress", value |-> stats.inProgress],
      [name |-> "In Review", value |-> stats.review],
      [name |-> "Completed", value |-> stats.completed]>>

\* const statusData, the same in the three pages
statusData(stats) ==
    NonZero(<<[name |-> "To Do", value |-> stats.todo],
              [name |-> "In Progress", value |-> stats.inProgress],
              [name |-> "In Review", value |-> stats.review],
              [name |-> "Completed", value |-> stats.completed]>>)

\* const priorityData, from the three priority counts
priorityData(counts) ==
    NonZero(<<[name |-> "Low", value |-> counts.low],
              [name |-> "Medium", value |-> counts.medium],
              [name |-> "High", value |-> counts.high]>>)

\* ReportsPage selectedPeriod and its daysToSubtract
Periods == {"last-7-days", "last-30-days", "last-90-days", "all-time"}

daysToSubtract(selectedPeriod) ==
    CASE selectedPeriod = "last-30-days" -> 30
      [] selectedPeriod = "last-90-days" -> 90
      [] OTHER -> 7

\* ReportsPage filteredTasks: the tasks created on or after startDate
PeriodTasks(allTasks, selectedPeriod) ==
    IF selectedPeriod # "all-time"
    THEN LET startDate == Today - daysToSubtract(selectedPeriod)
             inPeriod(task) == task.created_at >= startDate
         IN  SelectSeq(allTasks, inPeriod)
    ELSE allTasks

\* No statistics computed yet: the useState initial values of the pages
NoStats ==
    [total |-> 0, completed |-> 0, inProgress |-> 0, todo |-> 0,
     review |-> 0]

StIdle ==
    [page |-> NULL, allTasks |-> <<>>, counted |-> <<>>,
     taskStats |-> NoStats, priorityStats |-> NULL, overdue |-> NULL,
     statusChartData |-> <<>>, priorityChartData |-> <<>>]

\* The setters a run calls once its tasks are fetched
SetStats(page, counted, priorityStats, overdue, priorityChartData) ==
    /\ st' = [st EXCEPT
                !.page = page,
                !.counted = counted,
                !.taskStats = StatusCounts(counted),
                !.priorityStats = priorityStats,
                !.overdue = overdue,
                !.statusChartData = statusData(StatusCounts(counted)),
                !.priorityChartData = priorityChartData]
    /\ UNCHANGED notChart

\* Dashboard loadAllTasks after its fetches: stats with overdue, the status
\* chart from stats and the priority chart counted from the list again.
DashboardStats ==
    SetStats("dashboard", st.allTasks, NULL, OverdueCount(st.allTasks),
             priorityData(PriorityCounts(st.allTasks)))

\* ReportsPage loadStats after its fetches: the tasks of the period, stats
\* with the priority counts, both charts from stats.
ReportsStats(selectedPeriod) ==
    LET filtered == PeriodTasks(st.allTasks, selectedPeriod) IN
    SetStats("reports", filtered, PriorityCounts(filtered), NULL,
             priorityData(PriorityCounts(filtered)))

\* ProfilePage loadStats after its fetches: taskStatsData and
\* priorityStatsData, both charts from them.
ProfileStats ==
    SetStats("profile", st.allTasks, PriorityCounts(st.allTasks), NULL,
             priorityData(PriorityCounts(st.allTasks)))

\* ----------------------------------------------------------- specifications
\* KanbanBoard's useState initial values
KanbanStateInit ==
    /\ searchTerm = <<>>
    /\ filters = [priority |-> <<>>, tags |-> <<>>]
    /\ toggleLog = NoToggle

\* The service layer at rest
ServiceIdle == svc = SvcIdle

\* The board mounted with no tasks
KanbanIdle == kbTasks = <<>> /\ KanbanStateInit

\* The backend with its projects and no tasks yet, nobody subscribed
BackendInit ==
    /\ projects = ProjectIds
    /\ tasks = {}
    /\ nextTaskId = 1
    /\ channel = 0
    /\ notifs = <<>>

\* No deleteProject call made
DeleteIdle == dp = DpIdle /\ dpOk = {}

\* The application on the project list, ProjectDetail not open
PageIdle ==
    /\ pdRoute = 0
    /\ pdProject = 0
    /\ pdTasks = <<>>
    /\ pdIsLoading = FALSE
    /\ loads = <<>>
    /\ drag = NoDrag
    /\ upd = UpdIdle
    /\ ft = FtIdle
    /\ oc = OcIdle
    /\ sp = SpIdle
    /\ st = StIdle

\* No invitation yet, nobody a member, both pages at rest
InviteIdle ==
    /\ team_invitations = {}
    /\ team_members = <<>>
    /\ nextInvitationId = 1
    /\ ip = IpClosed
    /\ tp = TpIdle
    /\ ol = TpIdle

InitKanban ==
    /\ kbTasks \in UNION { KanbanTaskLists(n) : n \in 0..MaxLen }
    /\ KanbanStateInit
    /\ ServiceIdle
    /\ BackendInit
    /\ DeleteIdle
    /\ PageIdle
    /\ InviteIdle
    /\ SessionIdle

NextKanban ==
    \/ \E i \in 1..Len(allPriorities) : TogglePriority(allPriorities[i])
    \/ \E term \in SearchTerms : SetSearchTerm(term)

SpecKanban == InitKanban /\ [][NextKanban]_vars

\* Task lists of length n over all four statuses, with a low or a high
\* priority and the text ("b", "A")
ColumnTaskLists(n) ==
    LET text == [title |-> <<"b">>, description |-> <<"A">>] IN
    { [i \in 1..n |-> KanbanTask(i, text, f[i].status, f[i].priority)] :
        f \in [1..n -> [status : Statuses, priority : {"low", "high"}]] }

InitColumns ==
    /\ kbTasks \in UNION { ColumnTaskLists(n) : n \in 0..MaxLen }
    /\ KanbanStateInit
    /\ ServiceIdle
    /\ BackendInit
    /\ DeleteIdle
    /\ PageIdle
    /\ InviteIdle
    /\ SessionIdle

SpecColumns == InitColumns /\ [][NextKanban]_vars

InitService ==
    /\ svc = SvcIdle
    /\ KanbanIdle
    /\ BackendInit
    /\ DeleteIdle
    /\ PageIdle
    /\ InviteIdle
    /\ SessionIdle

NextService ==
    \/ \E fn \in ServiceFns : SvcCall(fn)
    \/ \E outcome \in {"ok"} \cup Failures : SvcBackendReply(outcome)

SpecService == InitService /\ [][NextService]_vars

\* Task operations of other clients, applied by the backend
OtherClientInsert(project_id, status) ==
    /\ CanPublish
    /\ BackendInsertTask(project_id, status)
    /\ UNCHANGED <<deleteVars, notDelete>>

OtherClientUpdate(id, status) ==
    /\ CanPublish
    /\ BackendUpdateTask(id, status)
    /\ UNCHANGED <<deleteVars, notDelete>>

OtherClientDelete(id) ==
    /\ CanPublish
    /\ BackendDeleteTask(id)
    /\ UNCHANGED <<deleteVars, notDelete>>

InitDelete ==
    /\ BackendInit
    /\ DeleteIdle
    /\ KanbanIdle
    /\ ServiceIdle
    /\ PageIdle
    /\ InviteIdle
    /\ SessionIdle

NextDelete ==
    \/ \E id \in ProjectIds : DeleteProjectStart(id)
    \/ \E outcome \in {"ok"} \cup Failures : DeleteProjectTasksReply(outcome)
    \/ \E outcome \in {"ok"} \cup Failures, fk \in ForeignKeyActions :
          DeleteProjectProjectReply(outcome, fk)
    \/ \E id \in ProjectIds, status \in Statuses :
          OtherClientInsert(id, status)
    \/ \E id \in 1..MaxTasks, status \in Statuses :
          OtherClientUpdate(id, status)
    \/ \E id \in 1..MaxTasks : OtherClientDelete(id)

SpecDelete == InitDelete /\ [][NextDelete]_vars

InitFetch ==
    /\ BackendInit
    /\ PageIdle
    /\ DeleteIdle
    /\ KanbanIdle
    /\ ServiceIdle
    /\ InviteIdle
    /\ SessionIdle

NextFetch ==
    \/ \E id \in ProjectIds : FetchTasksCall(id)
    \/ \E outcome \in {"ok"} \cup Failures : FetchTasksReturn(outcome)
    \/ \E id \in ProjectIds, status \in Statuses :
          OtherClientInsert(id, status)
    \/ \E id \in 1..MaxTasks, status \in Statuses :
          OtherClientUpdate(id, status)
    \/ \E id \in 1..MaxTasks : OtherClientDelete(id)

SpecFetch == InitFetch /\ [][NextFetch]_vars

\* The board of project 1 loaded and subscribed, showing the n tasks the
\* backend holds for it
BoardLoaded(n, status) ==
    /\ projects = ProjectIds
    /\ tasks = { Task(id, 1, status[id]) : id \in 1..n }
    /\ nextTaskId = n + 1
    /\ channel = 1
    /\ notifs = <<>>
    /\ pdRoute = 1
    /\ pdProject = 1
    /\ pdTasks = fetchTasks(1, "ok")
    /\ pdIsLoading = FALSE
    /\ loads = <<>>
    /\ drag = NoDrag
    /\ upd = UpdIdle
    /\ ft = FtIdle
    /\ oc = OcIdle
    /\ sp = SpIdle
    /\ st = StIdle

InitDrop ==
    /\ \E n \in 0..MaxTasks : \E status \in [1..n -> InputStatuses] :
          BoardLoaded(n, status)
    /\ DeleteIdle
    /\ KanbanIdle
    /\ ServiceIdle
    /\ InviteIdle
    /\ SessionIdle

NextDrop ==
    \/ \E i \in 1..MaxTasks : DragStart(i)
    \/ \E c \in 1..Len(columns) : Drop(c)
    \/ \E outcome \in Outcomes : UpdateTaskReply(outcome)
    \/ DeliverNotif
    \/ \E id \in ProjectIds, status \in InputStatuses :
          OtherClientInsert(id, status)
    \/ \E id \in 1..MaxTasks : OtherClientDelete(id)

SpecDrop == InitDrop /\ [][NextDrop]_vars

InitInvite ==
    /\ InviteIdle
    /\ SessionIdle
    /\ BackendInit
    /\ PageIdle
    /\ DeleteIdle
    /\ KanbanIdle
    /\ ServiceIdle

NextInvite ==
    \/ \E user \in {0} \cup UserIds, token \in 1..MaxInvitations :
          OpenInvitationPage(user, token)
    \/ \E outcome \in Outcomes : FetchInvitationReply(outcome)
    \/ LeaveInvitationPage
    \/ HandleAccept
    \/ \E outcome \in Outcomes : AcceptMemberReply(outcome)
    \/ \E outcome \in Outcomes : AcceptUpdateReply(outcome)
    \/ HandleDecline
    \/ \E outcome \in Outcomes : DeclineReply(outcome)
    \/ \E teamId \in TeamIds : HandleInvite(teamId)
    \/ \E outcome \in Outcomes, user \in UserIds, role \in Roles :
          HandleInviteReply(outcome, UserEmail(user), role)
    \/ \E teamId \in TeamIds : GetInvitationLink(teamId)
    \/ \E outcome \in Outcomes : LinkSelectReply(outcome)
    \/ \E outcome \in Outcomes : LinkInsertReply(outcome)

SpecInvite == InitInvite /\ [][NextInvite]_vars


\* This client drags and drops until the other client's drop races with one
\* of its calls; the race is then followed to its end.
NextRace ==
    \/ oc.pc = "idle" /\ \E i \in 1..MaxTasks : DragStart(i)
    \/ \E c \in 1..Len(columns) : Drop(c)
    \/ \E outcome \in Outcomes : UpdateTaskReply(outcome)
    \/ \E id \in 1..MaxTasks, c \in 1..Len(columns) :
          OtherClientDrop(id, columns[c].status)
    \/ \E outcome \in Outcomes : OtherClientUpdateReply(outcome)
    \/ DeliverNotif

SpecRace == InitDrop /\ [][NextRace]_vars

\* ProjectDetail is opened and loads while other clients add tasks
InitMount ==
    /\ BackendInit
    /\ PageIdle
    /\ DeleteIdle
    /\ KanbanIdle
    /\ ServiceIdle
    /\ InviteIdle
    /\ SessionIdle

NextMount ==
    \/ \E id \in ProjectIds : OpenProject(id)
    \/ \E i \in 1..Len(loads), outcome \in Outcomes :
          LoadProjectReply(i, outcome)
    \/ \E i \in 1..Len(loads), outcome \in Outcomes :
          FetchTasksReply(i, outcome)
    \/ \E i \in 1..Len(loads) : LoadTasksReturn(i)
    \/ DeliverNotif
    \/ RedeliverNotif
    \/ \E id \in ProjectIds, status \in InputStatuses :
          OtherClientInsert(id, status)

SpecMount == InitMount /\ [][NextMount]_vars

\* The same, with every request answered in the end (by data or by an
\* error) and every continuation run by the event loop
FairMount ==
    /\ WF_vars(\E i \in 1..Len(loads), outcome \in Outcomes :
                  LoadProjectReply(i, outcome))
    /\ WF_vars(\E i \in 1..Len(loads), outcome \in Outcomes :
                  FetchTasksReply(i, outcome))
    /\ WF_vars(\E i \in 1..Len(loads) : LoadTasksReturn(i))

SpecMountFair == InitMount /\ [][NextMount]_vars /\ FairMount

\* The backend holding some tasks of its projects, and no page open
InitLoads ==
    /\ projects = ProjectIds
    /\ \E n \in 0..MaxTasks : \E project \in [1..n -> ProjectIds] :
          /\ tasks = { Task(id, project[id], "todo") : id \in 1..n }
          /\ nextTaskId = n + 1
    /\ channel = 0
    /\ notifs = <<>>
    /\ PageIdle
    /\ DeleteIdle
    /\ KanbanIdle
    /\ ServiceIdle
    /\ InviteIdle
    /\ SessionIdle

\* One browser tab on ProjectDetail, Reports or Dashboard, whose loads are
\* answered in any order
NextLoads ==
    \/ sp.page = NULL /\ \E id \in ProjectIds : OpenProject(id)
    \/ \E id \in ProjectIds : ChangeRoute(id)
    \/ \E i \in 1..Len(loads), outcome \in Outcomes :
          LoadProjectReply(i, outcome)
    \/ \E i \in 1..Len(loads) : FetchTasksReply(i, "ok")
    \/ \E i \in 1..Len(loads) : LoadTasksReturn(i)
    \/ ~PageOpen /\ \E page \in {"reports", "dashboard"} : OpenStatsPage(page)
    \/ LeaveStatsPage
    \/ \E outcome \in Outcomes : ProjectsQueryReply(outcome)
    \/ \E selected \in ProjectIds \cup {AllProjects} :
          SelectProject(selected)
    \/ \E i \in 1..Len(sp.runs) : StatsFetchReply(i, "ok")

SpecLoads == InitLoads /\ [][NextLoads]_vars

\* ProjectDetail is opened, loads and may lose its subscription, while other
\* clients insert, update and delete tasks
NextOffline ==
    \/ \E id \in ProjectIds : OpenProject(id)
    \/ \E i \in 1..Len(loads), outcome \in Outcomes :
          LoadProjectReply(i, outcome)
    \/ \E i \in 1..Len(loads), outcome \in Outcomes :
          FetchTasksReply(i, outcome)
    \/ \E i \in 1..Len(loads) : LoadTasksReturn(i)
    \/ DeliverNotif
    \/ Disconnect
    \/ \E id \in ProjectIds, status \in InputStatuses :
          OtherClientInsert(id, status)
    \/ \E id \in 1..MaxTasks, status \in InputStatuses :
          OtherClientUpdate(id, status)
    \/ \E id \in 1..MaxTasks : OtherClientDelete(id)

SpecOffline == InitMount /\ [][NextOffline]_vars

\* ProjectDetail is opened and stays subscribed; its selects are answered
\* with data while other clients insert, update and delete tasks
NextSync ==
    \/ \E id \in ProjectIds : OpenProject(id)
    \/ \E i \in 1..Len(loads), outcome \in Outcomes :
          LoadProjectReply(i, outcome)
    \/ \E i \in 1..Len(loads) : FetchTasksReply(i, "ok")
    \/ \E i \in 1..Len(loads) : LoadTasksReturn(i)
    \/ DeliverNotif
    \/ \E id \in ProjectIds, status \in InputStatuses :
          OtherClientInsert(id, status)
    \/ \E id \in 1..MaxTasks, status \in InputStatuses :
          OtherClientUpdate(id, status)
    \/ \E id \in 1..MaxTasks : OtherClientDelete(id)

SpecSync == InitMount /\ [][NextSync]_vars

\* TeamPage: invitations by email and invitation links, with a second link
\* call that may overlap the first
NextLink ==
    \/ \E teamId \in TeamIds : HandleInvite(teamId)
    \/ \E outcome \in Outcomes, user \in UserIds, role \in Roles :
          HandleInviteReply(outcome, UserEmail(user), role)
    \/ \E teamId \in TeamIds : GetInvitationLink(teamId)
    \/ \E outcome \in Outcomes : LinkSelectReply(outcome)
    \/ \E outcome \in Outcomes : LinkInsertReply(outcome)
    \/ \E teamId \in TeamIds : OtherGetInvitationLink(teamId)
    \/ \E outcome \in Outcomes : OtherLinkSelectReply(outcome)
    \/ \E outcome \in Outcomes : OtherLinkInsertReply(outcome)

SpecLink == InitInvite /\ [][NextLink]_vars

\* A page has fetched the tasks of the user's projects
InitStatistics ==
    /\ \E n \in 0..MaxTasks : \E list \in StatTaskLists(n) :
          st = [StIdle EXCEPT !.allTasks = list]
    /\ BackendInit
    /\ pdRoute = 0
    /\ pdProject = 0
    /\ pdTasks = <<>>
    /\ pdIsLoading = FALSE
    /\ loads = <<>>
    /\ drag = NoDrag
    /\ upd = UpdIdle
    /\ ft = FtIdle
    /\ oc = OcIdle
    /\ sp = SpIdle
    /\ DeleteIdle
    /\ KanbanIdle
    /\ ServiceIdle
    /\ InviteIdle
    /\ SessionIdle

NextStatistics ==
    \/ DashboardStats
    \/ \E selectedPeriod \in Periods : ReportsStats(selectedPeriod)
    \/ ProfileStats

SpecStatistics == InitStatistics /\ [][NextStatistics]_vars

\* The application in a browser tab: loads, links, sign-in and sign-out
InitSession ==
    /\ SessionIdle
    /\ BackendInit
    /\ PageIdle
    /\ DeleteIdle
    /\ KanbanIdle
    /\ ServiceIdle
    /\ InviteIdle

NextSession ==
    \/ RunEffects
    \/ \E r \in Routes : Navigate(r)
    \/ \E r \in Routes : Reload(r)
    \/ \E user \in UserIds \cup {NoUser} : AuthResolved(user)
    \/ \E user \in UserIds : SignIn(user)
    \/ SignOut

SpecSession == InitSession /\ [][NextSession]_vars

\* ------------------------------------------------------------------ claims
\* C5: when the priority selection is exactly {high}, the filtered list, and
\* so every column, holds only tasks of priority "high", whatever the task
\* list and the search term.
C5_OnlyHigh ==
    filters.priority = <<"high">> =>
        /\ \A i \in 1..Len(Shown) : Shown[i].priority = "high"
        /\ \A c \in 1..Len(columns) :
              LET col == ColumnTasks(columns[c].status) IN
              \A i \in 1..Len(col) : col[i].priority = "high"

\* C5 witness: {high} is selected, a search term is set, and the board shows
\* some of the tasks and hides others.
C5_Witness ==
    /\ filters.priority = <<"high">>
    /\ searchTerm # <<>>
    /\ Shown # <<>>
    /\ \E i \in 1..Len(kbTasks) :
          kbTasks[i].priority # "high" /\ matchesSearch(kbTasks[i], searchTerm)

\* Every priority is selected
AllSelected == \A p \in Priorities : Includes(filters.priority, p)

\* C6: with all of low, medium and high selected the board shows the same
\* list as with none selected (same tasks, same search term); and a priority
\* checked and then unchecked again leaves the selection as it was before.
C6_AllEqualsNone ==
    /\ AllSelected =>
          Shown = filteredTasks(kbTasks, searchTerm,
                                [filters EXCEPT !.priority = <<>>])
    /\ toggleLog.phase = "off" => filters.priority = toggleLog.before

\* C6 witness: all three priorities are selected over a list of tasks of
\* different priorities, with a search term that hides one of them.
C6_Witness ==
    /\ AllSelected
    /\ Len(kbTasks) = 2
    /\ kbTasks[1].priority # kbTasks[2].priority
    /\ Len(Shown) = 1

\* C6, second case reached: a priority was checked and unchecked again while
\* another one stayed selected.
C6_ToggleWitness ==
    /\ toggleLog.phase = "off"
    /\ filters.priority # <<>>

\* The call in progress has ended in its catch block
SvcFailed == svc.pc = "done" /\ svc.outcome \in Failures

C9_Original ==
    svc.pc = "done" => Len(svc.issued) = 1

\* C9: every function except deleteProject makes exactly one backend request
\* per invocation, failed or not; deleteProject makes its task-delete request
\* and, only after that one succeeded, its project-delete request (two
\* requests on success); no request is ever sent a second time.
C9_RoundTrips ==
    svc.pc # "idle" =>
        /\ svc.issued = SubSeq(BackendCalls(Body(svc.fn)), 1, svc.step)
        /\ \A i, j \in 1..Len(svc.issued) :
              i # j => svc.issued[i] # svc.issued[j]
        /\ svc.fn # "deleteProject" => Len(svc.issued) = 1
        /\ svc.fn = "deleteProject" =>
              /\ Len(svc.issued) \in {1, 2}
              /\ svc.pc = "done" /\ svc.outcome = "ok" => Len(svc.issued) = 2

\* C9 witness: updateTaskStatus has failed after its single request.
C9_Witness ==
    /\ SvcFailed
    /\ svc.fn = "updateTaskStatus"
    /\ Len(svc.issued) = 1

\* C3: once deleteProject(id) has returned true, no task row with
\* project_id = id remains in the backend, then and ever after, whatever
\* task operations other clients interleave (the tasks go in a step of
\* their own, before the project row).
C3_DeletedProjectHasNoTasks ==
    \A id \in dpOk : TasksOf(id) = {}

\* C3 witness: deleteProject has returned true for a project row it
\* removed, other clients have inserted tasks, and tasks of another project
\* are still there.
C3_Witness ==
    /\ dp.pc = "done"
    /\ dp.ret = "true"
    /\ dp.removed
    /\ dp.id \in dpOk
    /\ tasks # {}

\* C4: deleteProject sends the project delete only after the task delete has
\* succeeded; when the task delete failed, no project delete is sent, the
\* project row is not removed and deleteProject returns false.
C4_TasksBeforeProject ==
    /\ dp.projectStep # "none" => dp.tasksStep = "ok"
    /\ dp.removed => dp.tasksStep = "ok"
    /\ dp.tasksStep = "failed" =>
          /\ dp.projectStep = "none"
          /\ ~dp.removed
          /\ dp.ret = "false"
          /\ dp.id \notin dpOk => dp.id \in projects

\* C4 witness: the task delete failed, deleteProject has returned, and the
\* project row and its tasks are both still there.
C4_Witness ==
    /\ dp.pc = "done"
    /\ dp.tasksStep = "failed"
    /\ dp.id \in projects
    /\ TasksOf(dp.id) # {}

\* C1: every task in the list fetchTasks(projectId) returns has project_id
\* equal to projectId, whatever the backend holds; when the backend fails the
\* list is empty.
C1_FetchedTasksOfProject ==
    ft.pc = "done" =>
        /\ \A k \in 1..Len(ft.data) : ft.data[k].project_id = ft.projectId
        /\ ft.outcome # "ok" => ft.data = <<>>

\* C1 witness: fetchTasks has returned a non-empty list while the backend
\* also holds a task of another project.
C1_Witness ==
    /\ ft.pc = "done"
    /\ ft.data # <<>>
    /\ \E t \in tasks : t.project_id # ft.projectId

\* The step in which the drop's updateTaskStatus call comes back
DropReturns == upd.pc = "await" /\ upd'.pc = "done"

\* C2 as stated: after a drop on the column of status S the task's status
\* is S.
C2_Original ==
    [][DropReturns =>
        /\ upd.column \in Statuses
        /\ StatusOf(tasks', upd.id) = upd.column]_vars

\* C2: a drop on the column of status S sends updateTaskStatus(id, S) with S
\* one of todo, in-progress, review, completed; when that call succeeds the
\* task's status is S, and when it fails (backend error, or the task row is
\* gone) the call leaves the task's status as it was.
C2_StatusMatchesColumn ==
    [][DropReturns =>
        /\ upd.column \in Statuses
        /\ upd.status = upd.column
        /\ upd'.ret = "data" => StatusOf(tasks', upd.id) = upd.column
        /\ upd'.ret # "data" =>
              StatusOf(tasks', upd.id) = StatusOf(tasks, upd.id)]_vars

\* C2 witness: a drop has succeeded and a task is completed, a status that
\* only a drop on the Completed column gives a task here.
C2_Witness ==
    /\ upd.pc = "done"
    /\ upd.ret = "data"
    /\ \E t \in tasks : t.status = "completed"

\* A step in which the tasksChannel handler runs on the oldest notification
Delivery ==
    /\ notifs # <<>>
    /\ notifs' = Tail(notifs)
    /\ pdRoute' = pdRoute

\* The positions of list whose entry has another id
OtherPositions(list, id) == { i \in 1..Len(list) : list[i].id # id }

\* The k-th smallest member of a set of positions
KthPosition(positions, k) ==
    CHOOSE i \in positions : Cardinality({ j \in positions : j <= i }) = k

C10_InsertWitness ==
    /\ Len(pdTasks) = 1
    /\ pdTasks[1].id = 2
    /\ \E t \in tasks : t.id = 1 /\ t.project_id # pdRoute

\* A DELETE emptied the list: the last drop found its task in the list and
\* failed because the row was gone, and the list has no entry now.
C10_DeleteWitness ==
    /\ upd.pc = "done"
    /\ upd.toast.message = "validation"
    /\ pdTasks = <<>>

\* C7: whatever handleInvite, getInvitationLink, handleAccept and
\* handleDecline have done, every invitation row whose status is "accepted"
\* has an accepted_at that is not null.
C7_AcceptedHasTimestamp ==
    \A r \in team_invitations :
        r.status = "accepted" => r.accepted_at # NullTime

\* C7 witness: handleAccept has marked an invitation accepted.
C7_Witness ==
    \E r \in team_invitations :
        r.status = "accepted" /\ r.accepted_at = toISOString

\* C7, a further case reached: an invitation was accepted and then declined;
\* it keeps its timestamp.
C7_DeclinedAfterAccept ==
    \E r \in team_invitations :
        r.status = "declined" /\ r.accepted_at # NullTime


\* The step in which the dragged card is dropped on a column
DropStep == drag # NoDrag /\ drag' = NoDrag /\ pdRoute' = pdRoute

\* C11 as stated: every drop sends exactly one updateTaskStatus call for the
\* dragged task with the status of the column dropped on.
C11_Original ==
    [][DropStep =>
        upd'.issued = <<UpdateRequest(drag.id, upd'.column)>>]_vars

\* C11: a drop on a column whose status differs from the status the card had
\* when the drag started, with the task still in the board's list, sends
\* exactly one updateTaskStatus call for that task with the column's status
\* and no other backend call; a drop on the card's own column, or of a card
\* whose task has left the list, sends no backend call at all.
C11_SingleCallOrNone ==
    [][DropStep =>
        LET col == upd'.column
            listed == \E i \in 1..Len(BoardTasks) : BoardTasks[i].id = drag.id
        IN  /\ col \in Statuses
            /\ IF drag.status # col /\ listed
               THEN /\ upd'.pc = "await"
                    /\ upd'.issued = <<UpdateRequest(drag.id, col)>>
               ELSE /\ upd'.pc = "idle"
                    /\ upd'.issued = <<>>
            /\ <<projects, tasks, nextTaskId, notifs>>' =
                  <<projects, tasks, nextTaskId, notifs>>]_vars

\* C11 witness: a drop on another column has sent its one call.
C11_Witness ==
    /\ upd.pc = "await"
    /\ upd.issued = <<UpdateRequest(upd.id, upd.column)>>
    /\ drag = NoDrag

\* C11, the other cases reached: a drop that sent nothing, on the card's own
\* column (the task still listed) and of a card whose task has left the list.
C11_OwnColumnWitness ==
    /\ upd.pc = "idle"
    /\ upd.column # NULL
    /\ \E i \in 1..Len(pdTasks) : pdTasks[i].status = upd.column

C11_UnlistedWitness ==
    /\ upd.pc = "idle"
    /\ upd.column # NULL
    /\ pdTasks = <<>>


\* C16: a drop changes nothing in ProjectDetail's local task list, neither
\* when the card is dropped nor when the status-update call comes back,
\* successful or failed; so a failed update leaves nothing to roll back.
C16_NoLocalMutation ==
    [][DropStep \/ DropReturns => pdTasks' = pdTasks]_vars

\* C16 witness: a drop's call has failed and the list still holds the tasks,
\* none of them in a column a drop gives.
C16_Witness ==
    /\ upd.pc = "done"
    /\ upd.ret = CatchReturn("updateTask")
    /\ pdTasks # <<>>
    /\ \A i \in 1..Len(pdTasks) : pdTasks[i].status \in InputStatuses

\* The entries of list that have the id all have the status
LocalStatusIs(list, id, status) ==
    \A i \in 1..Len(list) : list[i].id = id => list[i].status = status

\* C17 as stated: the success of the drop's status-update call is enough for
\* the card to be in column S of the local view.
C17_Original ==
    [][DropReturns /\ upd'.ret = "data" =>
        LocalStatusIs(pdTasks', upd.id, upd.status)]_vars

\* C17: after a drop onto column S the card is in column S of the local view
\* once the realtime UPDATE notification for the task has been applied: the
\* successful call publishes that notification, with status S, and leaves
\* the local list as it is; the handler then sets every local entry of the
\* task to the notification's row.
C17_MovesOnNotification ==
    [][/\ DropReturns =>
            /\ pdTasks' = pdTasks
            /\ upd'.ret = "data" =>
                  /\ Len(notifs') = Len(notifs) + 1
                  /\ notifs'[Len(notifs')].eventType = "UPDATE"
                  /\ notifs'[Len(notifs')].new.id = upd.id
                  /\ notifs'[Len(notifs')].new.status = upd.column
       /\ Delivery /\ Head(notifs).eventType = "UPDATE" =>
            LocalStatusIs(pdTasks', Head(notifs).new.id,
                          Head(notifs).new.status)]_vars

\* C17 witness: the call of a drop on Completed has succeeded, its
\* notification has been applied, and the card is in Completed locally.
C17_Witness ==
    /\ upd.pc = "done"
    /\ upd.ret = "data"
    /\ notifs = <<>>
    /\ \E i \in 1..Len(pdTasks) : pdTasks[i].status = "completed"

\* C17, the state the statement as given overlooks: the call has succeeded
\* and the card is still in its old column, the notification waiting.
C17_PendingWitness ==
    /\ upd.pc = "done"
    /\ upd.ret = "data"
    /\ notifs # <<>>
    /\ \E i \in 1..Len(pdTasks) :
          /\ pdTasks[i].id = Head(notifs).new.id
          /\ pdTasks[i].status # Head(notifs).new.status


\* The step in which the other client's status-update call comes back
OtherReturns == oc.pc = "await" /\ oc'.pc = "done"

\* C12: when two clients drop the same task on different columns, neither
\* call is refused because of the other: a call fails only on a backend
\* error or when the row is gone, and each successful call leaves the task
\* with the status it wrote, whatever the other client wrote before it; so
\* the task ends with the status of the update the backend applied last.
C12_LastWriteWins ==
    [][/\ DropReturns =>
            IF upd'.ret = "data"
            THEN StatusOf(tasks', upd.id) = upd.status
            ELSE /\ tasks' = tasks
                 /\ upd'.toast.message = "network" \/ TaskById(upd.id) = {}
       /\ OtherReturns =>
            IF oc'.ret = "data"
            THEN StatusOf(tasks', oc.id) = oc.status
            ELSE /\ tasks' = tasks
                 /\ oc'.error = "network" \/ TaskById(oc.id) = {}
       /\ OtherReturns /\ oc'.ret = "data" /\ upd.pc = "await"
            => upd' = upd]_vars

\* C12 witness: this client's call for a task is in flight, the other
\* client's call for the same task and another column has succeeded after a
\* write that changed the status its card showed, and the row has the other
\* client's status.
C12_Witness ==
    /\ upd.pc = "await"
    /\ oc.pc = "done"
    /\ oc.ret = "data"
    /\ oc.id = upd.id
    /\ oc.status # upd.status
    /\ StatusOf(tasks, oc.id) = oc.status

\* C12, both orders reached: both calls in flight for one task and different
\* columns; and the other client's call still in flight for the task after
\* this client's update of it was applied.
C12_BothInFlight ==
    /\ upd.pc = "await"
    /\ oc.pc = "await"
    /\ oc.id = upd.id
    /\ oc.status # upd.status

C12_ThisAppliedFirst ==
    /\ upd.pc = "done"
    /\ upd.ret = "data"
    /\ oc.pc = "await"
    /\ StatusOf(tasks, oc.id) \notin {oc.from, oc.status}

\* The pages the router serves only to a signed-in user
ProtectedPaths == {"/dashboard", "/projects", "/project/:projectId",
                   "/teams", "/reports", "/profile"}

\* The effects of a protected page run with auth loading finished and no user
UnauthenticatedMount ==
    /\ ran' # ran
    /\ route.path \in ProtectedPaths
    /\ ~auth.loading /\ auth.user = NoUser

\* C13: on every protected page (dashboard, projects, project detail, teams,
\* reports, profile), when the page's effects run with auth loading finished
\* and no authenticated user, the mount-time check navigates to /auth.
C13_Original ==
    [][UnauthenticatedMount => route'.path = "/auth"]_vars

\* C13: the Projects page is shown, its effects run, to no user after auth
\* loading has finished.
C13_Witness ==
    /\ Settled
    /\ route.path = "/projects"
    /\ ~auth.loading /\ auth.user = NoUser

\* C13: a checked page shown while auth is loading (the redirect has not
\* happened yet).
C13_LoadingWitness ==
    /\ Settled
    /\ route.path \in CheckedPaths
    /\ auth.loading

\* The open channels on a table
ChannelsOn(table) == { c \in channels : c.table = table }

\* C14: once the effects of a render have run, ProjectDetail with a user holds
\* exactly one tasks subscription, filtered to project_id = the current
\* projectId, the Projects page with a user exactly one projects subscription
\* filtered to user_id = the current user, and no channel of an earlier
\* projectId, user or page remains open.
C14_SubscriptionFollowsPage ==
    Settled =>
        /\ ChannelsOn("tasks") =
              IF route.path = "/project/:projectId" /\ auth.user # NoUser
              THEN {[name |-> "tasks-changes", table |-> "tasks",
                     column |-> "project_id", value |-> route.projectId]}
              ELSE {}
        /\ { c \in channels : c.column = "user_id" } =
              IF route.path = "/projects" /\ auth.user # NoUser
              THEN {[name |-> "projects-channel", table |-> "projects",
                     column |-> "user_id", value |-> auth.user]}
              ELSE {}
        /\ \A c \in channels :
              /\ c.column = "id" =>
                    /\ route.path = "/project/:projectId"
                    /\ c.value = route.projectId
              /\ route.path \in {"/project/:projectId", "/projects"}

\* C14: ProjectDetail shows the last project after its projectId changed
\* from another one, with its subscriptions open.
C14_Witness ==
    /\ Settled
    /\ route = RouteOf("/project/:projectId", MaxProjects)
    /\ auth.user # NoUser
    /\ channels # {}

\* C14: the route's projectId has changed under the mounted ProjectDetail
\* whose channels for the earlier projectId are open.
C14_ChangeWitness ==
    /\ ~Settled
    /\ ran.route.path = "/project/:projectId"
    /\ route.path = "/project/:projectId"
    /\ ran.route.projectId # route.projectId
    /\ ChannelsOn("tasks") # {}

\* C14: the user signed out on the Projects page whose channel is open.
C14_UserChangeWitness ==
    /\ ~Settled
    /\ ran.route.path = "/projects"
    /\ ran.user # NoUser
    /\ auth.user = NoUser
    /\ channels # {}

\* deleteProject has returned after its task delete succeeded and its project
\* delete failed
PartialDelete ==
    /\ dp.pc = "done"
    /\ dp.tasksStep = "ok"
    /\ dp.projectStep = "failed"

\* C15: when deleteProject's task-delete step succeeded and its
\* project-delete step then failed, deleteProject has returned false with an
\* error notification, the project row (unless an earlier deleteProject
\* removed it) still exists, none of the deleted tasks is back in the tasks
\* table, and ProjectHeader has not navigated to /projects.
C15_PartialFailure ==
    PartialDelete =>
        /\ dp.ret = "false"
        /\ dp.toast.kind = "error"
        /\ dp.toast.prefix = ErrorPrefix("deleteProject")
        /\ dp.toast.message \in Failures
        /\ dp.id \notin dpOk => dp.id \in projects
        /\ \A t \in tasks : t.id \notin dp.deleted
        /\ ~dp.navigated

\* C15: the partial failure has happened to a project that had tasks: they
\* are gone, the project row is there, and another client has since added a
\* task to the project.
C15_Witness ==
    /\ PartialDelete
    /\ dp.deleted # {}
    /\ dp.id \in projects
    /\ TasksOf(dp.id) # {}

\* The number of entries of list with the id
Entries(list, id) == Cardinality({ i \in 1..Len(list) : list[i].id = id })

C18_TwiceWitness ==
    /\ PageOpen
    /\ Len(pdTasks) = 3
    /\ Entries(pdTasks, pdTasks[1].id) = 3

\* The todo and acc of the runs, in issue order
Progress(runs) == [j \in 1..Len(runs) |-> <<runs[j].todo, runs[j].acc>>]

C19_ReportsWitness ==
    /\ sp.page = "reports"
    /\ sp.runs = <<>>
    /\ sp.stale
    /\ sp.selected # AllProjects
    /\ \E i \in 1..Len(sp.allTasks) : sp.allTasks[i].project_id # sp.selected

\* C19: Dashboard holds the result of a run that a later run had overtaken.
C19_DashboardWitness ==
    /\ sp.page = "dashboard"
    /\ sp.runs = <<>>
    /\ sp.stale

\* The page is mounted and its tasks subscription is lost
Disconnected == PageOpen /\ channel = 0

\* The page stays mounted on its route over the step
StaysOpen == PageOpen /\ pdRoute' = pdRoute

\* C20: once the task subscription of ProjectDetail has disconnected, the
\* local task list never changes as long as the page is not reloaded.
C20_Original ==
    [][Disconnected /\ StaysOpen => pdTasks' = pdTasks]_vars

\* C20: the page takes no reconnect or re-fetch step when its subscription
\* disconnects or afterwards: the disconnect itself changes neither the list
\* nor the loads in flight, no load is issued and the channel is not opened
\* again while the page stays mounted, and once the loads that were in
\* flight at the disconnect have resolved the local task list never changes,
\* whatever other clients do to the project's tasks.
C20_NoReconnectNoRefetch ==
    [][/\ Subscribed /\ channel' = 0 /\ StaysOpen =>
            /\ pdTasks' = pdTasks
            /\ loads' = loads
       /\ Disconnected /\ StaysOpen =>
            /\ channel' = 0
            /\ notifs' = <<>>
            /\ Len(loads') <= Len(loads)
            /\ loads = <<>> => pdTasks' = pdTasks
    ]_vars

\* C20: the disconnected page, no load in flight, shows the tasks it loaded
\* and lacks a task that another client has added to its project.
C20_Witness ==
    /\ Disconnected
    /\ loads = <<>>
    /\ ~pdIsLoading
    /\ pdTasks # <<>>
    /\ \E t \in TasksOf(pdRoute) :
          \A i \in 1..Len(pdTasks) : pdTasks[i].id # t.id

\* The local list holds a task of a project other than the route's
ForeignTaskShown ==
    \E i \in 1..Len(pdTasks) : pdTasks[i].project_id # pdRoute

\* C21: in ProjectDetail, once loading is finished (isLoading is false), every
\* task of the local task list handed to KanbanBoard has project_id equal to
\* the projectId of the current route.
C21_TasksOfRouteProject ==
    (PageOpen /\ ~pdIsLoading) => ~ForeignTaskShown

\* The route went from one project to another while the first load was in
\* flight, both loads have resolved, and the board of the route's project
\* shows the other project's tasks.
C21_Witness ==
    /\ BoardRendered
    /\ loads = <<>>
    /\ pdProject = pdRoute
    /\ ForeignTaskShown

\* The page is subscribed, its load has been applied and nothing is left to
\* deliver
Synced ==
    /\ Subscribed
    /\ ~pdIsLoading
    /\ loads = <<>>
    /\ notifs = <<>>

\* The rows a list holds
RowsOf(list) == { list[i] : i \in 1..Len(list) }

\* C22: in ProjectDetail with a connected subscription, once the initial
\* fetchTasks result has been applied and every notification has been
\* delivered, the local task list holds exactly the backend's tasks of the
\* project with their current field values, each once, whatever the order of
\* the fetch response and the notifications.
C22_ListMatchesBackend ==
    Synced =>
        /\ RowsOf(pdTasks) = TasksOf(pdRoute)
        /\ Len(pdTasks) = Cardinality(TasksOf(pdRoute))

\* C22: a change was notified and applied before the fetch result was set:
\* the synced list lacks a task the backend holds for the project.
C22_LostWitness ==
    /\ Synced
    /\ \E t \in TasksOf(pdRoute) :
          \A i \in 1..Len(pdTasks) : pdTasks[i].id # t.id

\* C22: a row was inserted after the channel was opened and before the
\* fetch was answered: the synced list holds it twice.
C22_DuplicateWitness ==
    /\ Synced
    /\ \E i, j \in 1..Len(pdTasks) : i < j /\ pdTasks[i] = pdTasks[j]

\* C22: the synced list shows a status the backend no longer holds, or a
\* task the backend has deleted.
C22_StaleWitness ==
    /\ Synced
    /\ Len(pdTasks) = Cardinality(TasksOf(pdRoute))
    /\ RowsOf(pdTasks) # TasksOf(pdRoute)

\* The invitation rows whose status is "accepted"
Accepted(rows) == { r.id : r \in { x \in rows : x.status = "accepted" } }

\* The page's user may accept the page's invitation: somebody is signed in
\* and their email is the email of the invitation row
MayAccept ==
    /\ ip.user # 0
    /\ \E r \in team_invitations :
          r.id = ip.invitation.id /\ r.email = UserEmail(ip.user)

\* The Accept button is clicked by a signed-in user whose email is not the
\* invitation's
MismatchedAccept ==
    /\ ip.pc = "idle"
    /\ ip.user # 0
    /\ ip.invitation # NoInvitation
    /\ ~MayAccept
    /\ ip'.toast = "mismatch"

\* C23: a team_members row is inserted, and an invitation is marked
\* accepted, only when a user is signed in and that user's email equals the
\* invitation's email; when the emails differ handleAccept sends no backend
\* write (it awaits nothing and no table changes), shows the error and leaves
\* isAccepting false.
C23_AcceptOnlyOwnInvitation ==
    [][/\ team_members' # team_members => MayAccept
       /\ Accepted(team_invitations') \ Accepted(team_invitations) # {} =>
             MayAccept
       /\ ip'.pc \in {"member", "update"} =>
             MayAccept /\ ip'.user = ip.user
                       /\ ip'.invitation = ip.invitation
       /\ MismatchedAccept =>
             /\ ip'.pc = "idle"
             /\ ~ip'.isAccepting
             /\ UNCHANGED <<team_invitations, team_members>>
       /\ (ip.pc = "idle" /\ ip.invitation # NoInvitation /\ ip.user # 0
             /\ ~MayAccept /\ ip' # ip) =>
             \/ ip'.toast = "mismatch"
             \/ ip'.pc \in {"decline", "closed"}
    ]_vars

\* C23: a user whose email is not the invitation's has clicked Accept: the
\* error is shown, nothing is awaited, nobody is a member.
C23_Witness ==
    /\ ip.pc = "idle"
    /\ ip.toast = "mismatch"
    /\ ~ip.isAccepting
    /\ ~MayAccept
    /\ team_members = <<>>
    /\ Accepted(team_invitations) = {}

\* C23: the invited user has accepted: the member row and the accepted
\* invitation carry that user's email.
C23_AcceptedWitness ==
    \E r \in team_invitations :
        /\ r.status = "accepted"
        /\ \E i \in 1..Len(team_members) :
              UserEmail(team_members[i].user_id) = r.email

\* The team_members row handleAccept inserts for the page's user
MemberRow ==
    [team_id |-> ip.invitation.team_id, user_id |-> ip.user,
     role |-> ip.invitation.role]

\* C24: handleAccept inserts the membership before it updates the
\* invitation: in every step that sets an invitation's status to "accepted"
\* the team_members row for (invitation.team_id, accepting user,
\* invitation.role) is already the last row inserted, the accepted invitation
\* is the page's, and when the membership insert fails no update is sent and
\* the invitation rows are left unchanged.
C24_MemberBeforeAccepted ==
    [][/\ Accepted(team_invitations') \ Accepted(team_invitations) # {} =>
             /\ ip.pc = "update"
             /\ Accepted(team_invitations') \ Accepted(team_invitations)
                   = {ip.invitation.id}
             /\ team_members # <<>>
             /\ team_members[Len(team_members)] = MemberRow
             /\ team_members' = team_members
       /\ ip'.pc = "update" =>
             /\ team_members' # <<>>
             /\ team_members'[Len(team_members')] = MemberRow
       /\ (ip.pc = "member" /\ ip' # ip /\ team_members' = team_members) =>
             /\ ip'.pc = "idle"
             /\ ip'.toast = "accept-error"
             /\ team_invitations' = team_invitations
    ]_vars

\* C24: an invitation is accepted and the member row of its team and role
\* for the invited user is there.
C24_Witness ==
    \E r \in team_invitations :
        /\ r.status = "accepted"
        /\ \E i \in 1..Len(team_members), u \in UserIds :
              /\ UserEmail(u) = r.email
              /\ team_members[i] =
                    [team_id |-> r.team_id, user_id |-> u, role |-> r.role]

\* C24: the membership insert has failed: the error is shown, nobody is a
\* member and the page's invitation is still pending.
C24_FailedInsertWitness ==
    /\ ip.toast = "accept-error"
    /\ team_members = <<>>
    /\ \E r \in team_invitations :
          r.id = ip.invitation.id /\ r.status = "pending"

\* C25: an invitation's status only moves from pending to accepted or
\* declined: no step of handleAccept or handleDecline changes an invitation
\* row whose status is already accepted or declined, and no invitation is
\* accepted twice (team_members never holds the same row a second time).
C25_OnlyFromPending ==
    [][/\ \A r \in team_invitations :
             r.status # "pending" => r \in team_invitations'
       /\ \A i, j \in 1..Len(team_members') :
             team_members'[i] = team_members'[j] => i = j
    ]_vars

\* C25: an invitation that was accepted has been declined afterwards, the
\* member row of its acceptance still in team_members.
C25_Witness ==
    \E r \in team_invitations :
        /\ r.status = "declined"
        /\ r.accepted_at # NullTime
        /\ \E i \in 1..Len(team_members), u \in UserIds :
              /\ UserEmail(u) = r.email
              /\ team_members[i].user_id = u
              /\ team_members[i].team_id = r.team_id

\* The placeholder (general_invite@example.com) invitations of a team
Placeholders(rows, teamId) ==
    { r \in rows : r.team_id = teamId /\ r.email = PlaceholderEmail }

\* The pending invitations of a team
Pending(rows, teamId) ==
    { r \in rows : r.team_id = teamId /\ r.status = "pending" }

\* C26: getInvitationLink(teamId) inserts a new invitation row only when the
\* team has no pending invitation, and otherwise inserts nothing; so
\* repeated or concurrent calls for the same team create at most one
\* placeholder invitation.
C26_AtMostOnePlaceholder ==
    [][\A teamId \in TeamIds :
          /\ Placeholders(team_invitations', teamId)
                # Placeholders(team_invitations, teamId) =>
                Pending(team_invitations, teamId) = {}
          /\ Cardinality(Placeholders(team_invitations', teamId)) <= 1
    ]_vars

\* C26: two calls for one team have overlapped: both selected before either
\* inserted, and the team has two pending placeholder invitations.
C26_Witness ==
    \E teamId \in TeamIds :
        /\ Cardinality(Placeholders(team_invitations, teamId)
                         \cap Pending(team_invitations, teamId)) = 2
        /\ tp.pc = "idle"
        /\ ol.pc = "idle"

\* The card lists of the four columns, in display order
Cards ==
    LET filtered == Shown
    IN  [c \in 1..Len(columns) |-> ColumnCards(filtered, columns[c].status)]

\* The columns among cards in which a card of task id is rendered
ColumnsOf(cards, id) ==
    { c \in 1..Len(cards) : \E k \in 1..Len(cards[c]) : cards[c][k].id = id }

RECURSIVE Sum(_)
Sum(counts) == IF counts = <<>> THEN 0 ELSE Head(counts) + Sum(Tail(counts))

\* C27: in KanbanBoard, for every task list, search term and priority
\* selection, each filtered task is rendered in exactly one of the four
\* columns, the one whose status is the task's; each column's displayed
\* count is the number of cards rendered in it; and the four counts sum to
\* the number of filtered tasks.
C27_ColumnsPartition ==
    LET shown == Shown
        cards == Cards
        badges == columnCounts
        counts == [c \in 1..Len(columns) |-> badges[columns[c].status]]
    IN  /\ \A i \in 1..Len(shown) :
              \E c \in 1..Len(columns) :
                  /\ ColumnsOf(cards, shown[i].id) = {c}
                  /\ columns[c].status = shown[i].status
        /\ \A c \in 1..Len(columns) : counts[c] = Len(cards[c])
        /\ Sum(counts) = Len(shown)

\* C27: a search term and a priority selection hide one of the board's two
\* tasks, which are in different columns; the one shown is in progress.
C27_Witness ==
    /\ searchTerm # <<>>
    /\ filters.priority # <<>>
    /\ Len(Shown) = 1
    /\ Len(kbTasks) = 2
    /\ kbTasks[1].status # kbTasks[2].status
    /\ ColumnCount(2) = 1
    /\ ColumnCount(4) = 0

\* C27: two tasks are shown, in two different columns.
C27_TwoColumnsWitness ==
    /\ Len(Shown) = 2
    /\ ColumnCount(2) = 1
    /\ ColumnCount(4) = 1

\* The positions of the tasks of a list with a status, with a priority
WithStatus(list, status) == { i \in 1..Len(list) : list[i].status = status }

WithPriority(list, priority) ==
    { i \in 1..Len(list) : list[i].priority = priority }

\* The (name, value) pairs of a chart's items
ItemsOf(chart) == { <<chart[i].name, chart[i].value>> : i \in 1..Len(chart) }

\* The chart names of the categories
StatusName ==
    [s \in Statuses |->
        CASE s = "todo" -> "To Do"
          [] s = "in-progress" -> "In Progress"
          [] s = "review" -> "In Review"
          [] s = "completed" -> "Completed"]

PriorityName ==
    [p \in Priorities |->
        CASE p = "low" -> "Low" [] p = "medium" -> "Medium"
          [] p = "high" -> "High"]

\* C28: the task statistics computed by Dashboard, ReportsPage and
\* ProfilePage partition the counted tasks: total = todo + inProgress +
\* review + completed, in Reports and Profile also total = high + medium +
\* low, Dashboard's overdue count counts no completed task, and the status
\* and priority chart data hold exactly the categories whose count is not
\* zero, each once with its count.
C28_StatsPartition ==
    st.page # NULL =>
      LET s == st.taskStats
          list == st.counted
          statusCount(s1) == Cardinality(WithStatus(list, s1))
          priorityCount(p1) == Cardinality(WithPriority(list, p1))
      IN  /\ s.total = Len(list)
          /\ s.total = s.todo + s.inProgress + s.review + s.completed
          /\ st.page \in {"reports", "profile"} =>
                s.total = st.priorityStats.high + st.priorityStats.medium
                            + st.priorityStats.low
          /\ st.page = "dashboard" =>
                st.overdue =
                   Cardinality({ i \in 1..Len(list) :
                                   /\ list[i].due_date # NullDate
                                   /\ list[i].due_date < Today
                                   /\ list[i].status # "completed" })
          /\ Len(st.statusChartData) = Cardinality(ItemsOf(st.statusChartData))
          /\ ItemsOf(st.statusChartData) =
                { <<StatusName[s1], statusCount(s1)>> :
                    s1 \in { s2 \in Statuses : statusCount(s2) > 0 } }
          /\ Len(st.priorityChartData)
                = Cardinality(ItemsOf(st.priorityChartData))
          /\ ItemsOf(st.priorityChartData) =
                { <<PriorityName[p1], priorityCount(p1)>> :
                    p1 \in { p2 \in Priorities : priorityCount(p2) > 0 } }

\* C28: the Dashboard has counted a completed task whose due date has
\* passed and an open one: one task is overdue, two charts' categories are
\* shown.
C28_Witness ==
    /\ st.page = "dashboard"
    /\ st.taskStats.total = 2
    /\ st.taskStats.completed = 1
    /\ st.overdue = 1
    /\ \A i \in 1..2 : isOverdue(st.counted[i].due_date)
    /\ Len(st.statusChartData) = 2

\* C28: ReportsPage has counted the tasks of a period that leaves one of the
\* fetched tasks out.
C28_ReportsWitness ==
    /\ st.page = "reports"
    /\ Len(st.counted) = 1
    /\ Len(st.allTasks) = 2
    /\ st.priorityStats.high = 1
    /\ Len(st.priorityChartData) = 1

\* C28: ProfilePage has counted two tasks of one status and two priorities.
C28_ProfileWitness ==
    /\ st.page = "profile"
    /\ st.taskStats.review = 2
    /\ Len(st.statusChartData) = 1
    /\ Len(st.priorityChartData) = 2

\* The project select of a load comes back with an error
ProjectFetchFails ==
    \E i \in 1..Len(loads) : LoadProjectReply(i, "network")

=============================================================================
